---- MODULE Spec2Model ----
(***************************************************************************)
(* A model of the Draken columnar runtime (mabel-dev/draken): the string   *)
(* vector builder, the Arrow import/export bridge and the take,            *)
(* comparison, null and hash kernels of the Int64, Bool and String         *)
(* vectors, the buffer ownership and keep-alive discipline, and the Morsel *)
(* container.                                                              *)
(*                                                                         *)
(* The module holds one group of variables per component and one           *)
(* specification per component (SpecBuilder, SpecKernel, SpecMem,          *)
(* SpecMorsel); a component's specification leaves the other groups at     *)
(* their initial value.                                                    *)
(*                                                                         *)
(* C arrays are 0-based; a TLA+ sequence s models the array a with         *)
(* a[i] = s[i + 1].                                                        *)
(***************************************************************************)
EXTENDS Integers, Sequences, FiniteSets, TLC

VARIABLES
    bld,        \* the StringVectorBuilder object and the buffers of its _vec
    bPre,       \* the builder as it was before the last call on it
    bLast,      \* the last call on the builder and how it ended
    bSnap,      \* the vector as finish() first returned it
    bLog,       \* the entries written into the builder so far, in order
    karr,       \* kernel bridge: the Arrow array handed to from_arrow
    kvec,       \* kernel bridge: the vector from_arrow built
    kout,       \* kernel bridge: the result of the kernel called on the vector
    kpc,        \* kernel bridge: "array" | "vector" | "exported" | "taken" | "computed"
    heap,       \* memory: every block ever allocated, with how it was freed
    vecs,       \* memory: the vector objects
    arrw,       \* memory: the Arrow array the caller imports from
    expo,       \* memory: the Arrow arrays to_arrow returned, one per vector
    morsel,     \* morsels: the morsel the last operation returned
    msrc,       \* morsels: the morsel that operation was called on
    mlast,      \* morsels: the last operation, its arguments and how it ended
    mnext,      \* morsels: the next fresh vector handle
    mops,       \* morsels: the number of operations done
    dcall,      \* types: the last lookup asked of the type and dispatch tables
    dres,       \* types: what that lookup returned
    lobj,       \* lifetimes: the Vector and bytes objects with their reference counts
    lmor,       \* lifetimes: the Morsel objects the caller has made
    llast,      \* lifetimes: the last operation, its source and its result
    stab,       \* sstable: the keys of the key block, in their sorted order
    skey,       \* sstable: the key match_equals looks for
    slow,       \* sstable: low, a uint32_t
    shigh,      \* sstable: high, a uint32_t
    smid,       \* sstable: mid of the last probe, a uint32_t
    spc,        \* sstable: "idle" | "search" | "done"
    sres        \* sstable: what match_equals returned

bvars == <<bld, bPre, bLast, bSnap, bLog>>
kvars == <<karr, kvec, kout, kpc>>
hvars == <<heap, vecs, arrw, expo>>
mvars == <<morsel, msrc, mlast, mnext, mops>>
dvars == <<dcall, dres>>
lvars == <<lobj, lmor, llast>>
svars == <<stab, skey, slow, shigh, smid, spc, sres>>
vars == <<bld, bPre, bLast, bSnap, bLog, karr, kvec, kout, kpc,
          heap, vecs, arrw, expo, morsel, msrc, mlast, mnext, mops,
          dcall, dres,
          lobj, lmor, llast,
          stab, skey, slow, shigh, smid, spc, sres>>

\* a step of one component leaves the other components alone
BuilderStep == UNCHANGED <<kvars, hvars, mvars, dvars, lvars, svars>>
KernelStep == UNCHANGED <<bvars, hvars, mvars, dvars, lvars, svars>>
HeapStep == UNCHANGED <<bvars, kvars, mvars, dvars, lvars, svars>>
MorselStep == UNCHANGED <<bvars, kvars, hvars, dvars, lvars, svars>>
DispatchStep == UNCHANGED <<bvars, kvars, hvars, mvars, lvars, svars>>
LifeStep == UNCHANGED <<bvars, kvars, hvars, mvars, dvars, svars>>
SearchStep == UNCHANGED <<bvars, kvars, hvars, mvars, dvars, lvars>>

(***************************************************************************)
(* Bounds of the model.                                                    *)
(***************************************************************************)
\* rows of a builder
MaxBuilderRows == 2
\* byte budget handed to with_counts, and average estimate handed to with_estimate
MaxBuilderBytes == 3

(***************************************************************************)
(* Bytes and bits.                                                         *)
(***************************************************************************)
Max2(a, b) == IF a >= b THEN a ELSE b

\* (byte >> k) & 1
BitOf(byte, k) == (byte \div (2 ^ k)) % 2

\* byte | (1 << k), as a uint8_t
OrBit(byte, k) == IF BitOf(byte, k) = 1 THEN byte ELSE byte + 2 ^ k

\* byte & ~(1 << k), as a uint8_t
ClearBit(byte, k) == IF BitOf(byte, k) = 1 THEN byte - 2 ^ k ELSE byte

\* a pointer: NULL, or the memory it addresses, from that address on (mem), and
\* the part of the same buffer that lies before the address (back)
NullPtr == [isNull |-> TRUE, mem |-> <<>>, back |-> <<>>]
Ptr(bs) == [isNull |-> FALSE, mem |-> bs, back |-> <<>>]

\* (bitmap[i >> 3] >> (i & 7)) & 1
BitmapBit(bs, i) == BitOf(bs[(i \div 8) + 1], i % 8)

\* memset(p, 0xFF, n)
AllValid(n) == [k \in 1..n |-> 255]

\* (n + 7) // 8
BitmapBytes(n) == (n + 7) \div 8

(***************************************************************************)
(* StringVectorBuilder.                                                    *)
(***************************************************************************)
NoBuilder ==
    [exists |-> FALSE, _length |-> 0, _next_index |-> 0, _bytes_cap |-> 0,
     _offset |-> 0, _finished |-> FALSE, _resizable |-> FALSE,
     _strict_capacity |-> FALSE, _mask_user_provided |-> FALSE,
     offsets |-> <<>>, data |-> <<>>, null_bitmap |-> NullPtr]

\* alloc_var_buffer: offsets is calloc'ed (length + 1 zeroes), data is malloc'ed
\* (modelled by the bytes written so far, nothing reads past _offset), no bitmap
alloc_var_buffer(length) ==
    [offsets |-> [k \in 1..(length + 1) |-> 0], data |-> <<>>, null_bitmap |-> NullPtr]

\* StringVectorBuilder.__cinit__
BuilderCinit(length, bytes_capacity, resizable, strict_capacity) ==
    LET buf == alloc_var_buffer(length) IN
    [exists |-> TRUE, _length |-> length, _next_index |-> 0,
     _bytes_cap |-> bytes_capacity, _offset |-> 0, _finished |-> FALSE,
     _resizable |-> resizable, _strict_capacity |-> strict_capacity,
     _mask_user_provided |-> FALSE,
     offsets |-> [buf.offsets EXCEPT ![1] = 0], data |-> buf.data,
     null_bitmap |-> buf.null_bitmap]

\* StringVectorBuilder.with_counts
with_counts(length, total_bytes) == BuilderCinit(length, total_bytes, FALSE, TRUE)

\* the initial capacity with_estimate falls back to
EstimateFloor == 64

\* StringVectorBuilder.with_estimate
with_estimate(length, est_avg_bytes) ==
    LET initial == length * est_avg_bytes IN
    BuilderCinit(length,
                 IF initial <= 0 THEN Max2(length, EstimateFloor) ELSE initial,
                 TRUE, FALSE)

\* StringVectorBuilder._require_index with the out-of-order test left out
RequireIndexAnyOrder(b, index) ==
    IF b._finished THEN "BuilderClosed"
    ELSE IF index < 0 \/ index >= b._length THEN "IndexOutOfBounds"
    ELSE "ok"

\* StringVectorBuilder._require_index: the error it raises, or "ok"
_require_index(b, index) ==
    IF b._finished THEN "BuilderClosed"
    ELSE IF index < 0 \/ index >= b._length THEN "IndexOutOfBounds"
    ELSE IF index # b._next_index THEN "IndexOutOfOrder"
    ELSE "ok"

\* _ensure_capacity with one turn of the loop at most
GrowCapOnce(new_cap, need) ==
    IF new_cap < need
    THEN (IF new_cap < EstimateFloor THEN EstimateFloor ELSE new_cap * 2)
    ELSE new_cap

\* the while loop of _ensure_capacity
RECURSIVE GrowCap(_, _)
GrowCap(new_cap, need) ==
    IF new_cap < need
    THEN GrowCap(IF new_cap < EstimateFloor THEN EstimateFloor ELSE new_cap * 2, need)
    ELSE new_cap

\* StringVectorBuilder._ensure_capacity: the error it raises, or the new capacity
_ensure_capacity(b, to_add) ==
    IF to_add <= 0 THEN [res |-> "ok", cap |-> b._bytes_cap]
    ELSE IF b._offset + to_add <= b._bytes_cap THEN [res |-> "ok", cap |-> b._bytes_cap]
    ELSE IF ~b._resizable THEN [res |-> "CapacityExceeded", cap |-> b._bytes_cap]
    ELSE [res |-> "ok",
          cap |-> GrowCap(IF b._bytes_cap = 0 THEN to_add ELSE b._bytes_cap,
                          b._offset + to_add)]

\* max(1, (length + 7) // 8): the bitmap size the builder uses
BuilderBitmapSize(b) == Max2(1, BitmapBytes(b._length))

\* StringVectorBuilder._initialize_null_bitmap
_initialize_null_bitmap(b) ==
    IF b.null_bitmap.isNull
    THEN [b EXCEPT !.null_bitmap = Ptr(AllValid(BuilderBitmapSize(b))),
                   !._mask_user_provided = FALSE]
    ELSE b

\* StringVectorBuilder._append_with_ptr with the store into offsets left out
AppendKeepOffsets(b, index, value) ==
    LET chk == _require_index(b, index)
        cap == _ensure_capacity(b, Len(value))
    IN  IF chk # "ok" THEN [st |-> b, res |-> chk]
        ELSE IF cap.res # "ok" THEN [st |-> b, res |-> cap.res]
        ELSE LET off == b._offset + Len(value)
                 nb == IF ~b.null_bitmap.isNull /\ ~b._mask_user_provided
                       THEN Ptr([b.null_bitmap.mem EXCEPT
                                   ![(index \div 8) + 1] = OrBit(@, index % 8)])
                       ELSE b.null_bitmap
             IN [st |-> [b EXCEPT !._bytes_cap = cap.cap,
                                  !.data = b.data \o value,
                                  !.null_bitmap = nb,
                                  !._offset = off,
                                  !._next_index = b._next_index + 1],
                 res |-> "ok"]

\* StringVectorBuilder._append_with_ptr
_append_with_ptr(b, index, value) ==
    LET chk == _require_index(b, index)
        cap == _ensure_capacity(b, Len(value))
    IN  IF chk # "ok" THEN [st |-> b, res |-> chk]
        ELSE IF cap.res # "ok" THEN [st |-> b, res |-> cap.res]
        ELSE LET off == b._offset + Len(value)
                 nb == IF ~b.null_bitmap.isNull /\ ~b._mask_user_provided
                       THEN Ptr([b.null_bitmap.mem EXCEPT
                                   ![(index \div 8) + 1] = OrBit(@, index % 8)])
                       ELSE b.null_bitmap
             IN [st |-> [b EXCEPT !._bytes_cap = cap.cap,
                                  !.data = b.data \o value,
                                  !.null_bitmap = nb,
                                  !._offset = off,
                                  !._next_index = b._next_index + 1,
                                  !.offsets[b._next_index + 2] = off],
                 res |-> "ok"]

\* StringVectorBuilder._set_null with the bit of the entry left as it is
SetNullKeepBit(b, index) ==
    LET chk == _require_index(b, index) IN
    IF chk # "ok" THEN [st |-> b, res |-> chk]
    ELSE LET b1 == _initialize_null_bitmap(b) IN
         [st |-> [b1 EXCEPT !._next_index = b._next_index + 1,
                            !.offsets[b._next_index + 2] = b._offset],
          res |-> "ok"]

\* StringVectorBuilder._set_null
_set_null(b, index) ==
    LET chk == _require_index(b, index) IN
    IF chk # "ok" THEN [st |-> b, res |-> chk]
    ELSE LET b1 == _initialize_null_bitmap(b) IN
         [st |-> [b1 EXCEPT !.null_bitmap =
                               Ptr([b1.null_bitmap.mem EXCEPT
                                      ![(index \div 8) + 1] = ClearBit(@, index % 8)]),
                            !._next_index = b._next_index + 1,
                            !.offsets[b._next_index + 2] = b._offset],
          res |-> "ok"]

\* StringVectorBuilder.set_validity_mask
set_validity_mask(b, mask) ==
    IF Len(mask) < BuilderBitmapSize(b) THEN [st |-> b, res |-> "MaskTooSmall"]
    ELSE [st |-> [b EXCEPT !.null_bitmap = Ptr(SubSeq(mask, 1, BuilderBitmapSize(b))),
                           !._mask_user_provided = TRUE],
          res |-> "ok"]

\* StringVectorBuilder.finish without the test of the number of entries written
FinishAnyCount(b) ==
    IF b._finished THEN [st |-> b, res |-> "ok"]
    ELSE LET b1 == IF b.offsets[b._length + 1] # b._offset
                   THEN [b EXCEPT !.offsets[b._length + 1] = b._offset]
                   ELSE b
         IN IF b._strict_capacity /\ b._offset # b._bytes_cap
            THEN [st |-> b1, res |-> "CapacityMismatch"]
            ELSE [st |-> [b1 EXCEPT !._finished = TRUE], res |-> "ok"]

\* StringVectorBuilder.finish without the test of the bytes consumed
FinishAnyBytes(b) ==
    IF b._finished THEN [st |-> b, res |-> "ok"]
    ELSE IF b._next_index # b._length THEN [st |-> b, res |-> "Incomplete"]
    ELSE LET b1 == IF b.offsets[b._length + 1] # b._offset
                   THEN [b EXCEPT !.offsets[b._length + 1] = b._offset]
                   ELSE b
         IN [st |-> [b1 EXCEPT !._finished = TRUE], res |-> "ok"]

\* StringVectorBuilder.finish
finish(b) ==
    IF b._finished THEN [st |-> b, res |-> "ok"]
    ELSE IF b._next_index # b._length THEN [st |-> b, res |-> "Incomplete"]
    ELSE LET b1 == IF b.offsets[b._length + 1] # b._offset
                   THEN [b EXCEPT !.offsets[b._length + 1] = b._offset]
                   ELSE b
         IN IF b._strict_capacity /\ b._offset # b._bytes_cap
            THEN [st |-> b1, res |-> "CapacityMismatch"]
            ELSE [st |-> [b1 EXCEPT !._finished = TRUE], res |-> "ok"]

\* the StringVector the builder holds in _vec, as a reader sees it
BuilderVec(b) ==
    [length |-> b._length, offsets |-> b.offsets, data |-> b.data,
     null_bitmap |-> b.null_bitmap]

\* the byte strings a caller appends
BuilderValues == {<<>>, <<97>>, <<98, 99>>}

\* the validity masks a caller installs: one too short for any builder, and one
\* byte that marks entry 1 valid and the others null
BuilderMasks == {<<>>, <<2>>}

NoCall == [op |-> "none", index |-> 0, res |-> "ok"]
NoSnap == [taken |-> FALSE, vec |-> BuilderVec(NoBuilder)]

BuilderIdle ==
    /\ bld = NoBuilder
    /\ bPre = NoBuilder
    /\ bLast = NoCall
    /\ bSnap = NoSnap
    /\ bLog = <<>>

\* an entry as the caller wrote it: a null, or a byte string
Written(isNull, v) == [isNull |-> isNull, v |-> v]
NotAWrite == Written(TRUE, <<>>)

\* one call on the builder: what it did to the builder, the entry it wrote when
\* it was a successful write, and the vector it returned when it was a
\* successful finish
BuilderCall(op, index, entry, out) ==
    /\ bPre' = bld
    /\ bld' = out.st
    /\ bLast' = [op |-> op, index |-> index, res |-> out.res]
    /\ bSnap' = IF op = "finish" /\ out.res = "ok" /\ ~bSnap.taken
                THEN [taken |-> TRUE, vec |-> BuilderVec(out.st)]
                ELSE bSnap
    /\ bLog' = IF out.res = "ok" /\ op \in {"append", "append_null", "set", "set_null"}
               THEN Append(bLog, entry)
               ELSE bLog
    /\ BuilderStep

\* StringVectorBuilder(length, bytes_capacity, resizable, strict_capacity), the
\* constructor itself, with the lengths and capacities it accepts
NewBuilder ==
    /\ ~bld.exists
    /\ \E n \in 0..MaxBuilderRows, cap \in 0..MaxBuilderBytes,
          resizable \in BOOLEAN, strict_capacity \in BOOLEAN :
          bld' = BuilderCinit(n, cap, resizable, strict_capacity)
    /\ UNCHANGED <<bPre, bLast, bSnap, bLog>>
    /\ BuilderStep

NewWithCounts ==
    /\ ~bld.exists
    /\ \E n \in 0..MaxBuilderRows, total \in 0..MaxBuilderBytes :
          bld' = with_counts(n, total)
    /\ UNCHANGED <<bPre, bLast, bSnap, bLog>>
    /\ BuilderStep

NewWithEstimate ==
    /\ ~bld.exists
    /\ \E n \in 0..MaxBuilderRows, est \in 0..MaxBuilderBytes :
          bld' = with_estimate(n, est)
    /\ UNCHANGED <<bPre, bLast, bSnap, bLog>>
    /\ BuilderStep

BAppend ==
    /\ bld.exists
    /\ \E v \in BuilderValues :
         BuilderCall("append", bld._next_index, Written(FALSE, v),
                     _append_with_ptr(bld, bld._next_index, v))

BAppendNull ==
    /\ bld.exists
    /\ BuilderCall("append_null", bld._next_index, Written(TRUE, <<>>),
                   _set_null(bld, bld._next_index))

BSet ==
    /\ bld.exists
    /\ \E i \in -1..MaxBuilderRows, v \in BuilderValues :
         BuilderCall("set", i, Written(FALSE, v), _append_with_ptr(bld, i, v))

BSetNull ==
    /\ bld.exists
    /\ \E i \in -1..MaxBuilderRows :
         BuilderCall("set_null", i, Written(TRUE, <<>>), _set_null(bld, i))

BSetValidityMask ==
    /\ bld.exists
    /\ \E m \in BuilderMasks :
         BuilderCall("set_validity_mask", 0, NotAWrite, set_validity_mask(bld, m))

BFinish ==
    /\ bld.exists
    /\ BuilderCall("finish", 0, NotAWrite, finish(bld))

\* the lengths of the byte strings appended to a growable builder: some fit the
\* initial capacity, some pass it, some pass its double
GrowLens == {0, 1, 4, 65, 130}

\* append on a growable builder
GrowAppend ==
    /\ bld.exists
    /\ \E len \in GrowLens :
         LET v == [k \in 1..len |-> 97] IN
         BuilderCall("append", bld._next_index, Written(FALSE, v),
                     _append_with_ptr(bld, bld._next_index, v))

BuilderNext ==
    \/ NewBuilder
    \/ NewWithCounts
    \/ NewWithEstimate
    \/ BAppend
    \/ BAppendNull
    \/ BSet
    \/ BSetNull
    \/ BSetValidityMask
    \/ BFinish

(***************************************************************************)
(* Arrow arrays, as pyarrow builds and slices them.                        *)
(***************************************************************************)
\* rows of an Arrow array handed to from_arrow
MaxLen == 3
\* indices handed to take
MaxIdx == 2

\* DrakenType, the C enum of buffers.h
DRAKEN_INT64 == 3
DRAKEN_FLOAT64 == 5
DRAKEN_BOOL == 8
DRAKEN_STRING == 9
\* buffers.h has no enumerator for the pass-through wrapper; 100 is the one code
\* the repository gives it (the mapping of DrakenTypeInt)
DRAKEN_NON_NATIVE == 100

RECURSIVE SumBits(_, _, _)
\* the byte with bit k set when bits[8 * j + k + 1] = 1, for k in 0..7
SumBits(bits, j, k) ==
    IF k > 7 \/ 8 * j + k + 1 > Len(bits) THEN 0
    ELSE bits[8 * j + k + 1] * (2 ^ k) + SumBits(bits, j, k + 1)

\* a sequence of bits packed least-significant bit first, as Arrow packs them
PackBits(bits) == [j \in 1..BitmapBytes(Len(bits)) |-> SumBits(bits, j - 1, 0)]

RECURSIVE ConcatRange(_, _, _)
\* the values ss[lo..hi] laid end to end, one half after the other
ConcatRange(ss, lo, hi) ==
    IF lo > hi THEN <<>>
    ELSE IF lo = hi THEN ss[lo]
    ELSE LET mid == (lo + hi) \div 2
         IN ConcatRange(ss, lo, mid) \o ConcatRange(ss, mid + 1, hi)

Concat(ss) == ConcatRange(ss, 1, Len(ss))

RECURSIVE EndOffsets(_, _, _, _)
\* the end offsets of the values ss[lo..hi] when ss[lo] starts at `from`
EndOffsets(ss, lo, hi, from) ==
    IF lo > hi THEN <<>>
    ELSE IF lo = hi THEN <<from + Len(ss[lo])>>
    ELSE LET mid == (lo + hi) \div 2
             left == EndOffsets(ss, lo, mid, from)
         IN left \o EndOffsets(ss, mid + 1, hi, left[Len(left)])

\* the int32 offsets of the values ss laid end to end, starting at `from`
PrefixLens(ss, from) == <<from>> \o EndOffsets(ss, 1, Len(ss), from)

\* the cells a caller puts into an Arrow array: a null, or a value
Cell(isNull, v) == [isNull |-> isNull, v |-> v]
Cells(type) ==
    IF type = "int64" THEN {Cell(TRUE, 0), Cell(FALSE, 5), Cell(FALSE, 9)}
    ELSE IF type = "bool" THEN {Cell(TRUE, 0), Cell(FALSE, 0), Cell(FALSE, 1)}
    ELSE IF type = "struct"
         THEN {Cell(TRUE, Cell(TRUE, 0)), Cell(FALSE, Cell(TRUE, 0)),
               Cell(FALSE, Cell(FALSE, 12))}
    ELSE {Cell(TRUE, <<>>), Cell(FALSE, <<>>), Cell(FALSE, <<97>>), Cell(FALSE, <<98, 99>>)}

ArrowTypes == {"int64", "bool", "string"}
\* and arrays of struct<f: int64>: a row is null, or holds a field that is
\* None or an integer
KernelArrowTypes == ArrowTypes \cup {"struct"}

\* pyarrow.array(rows, type): no validity buffer when no row is null; the slot of
\* a null holds 0 (an empty byte range for a string); the data of a struct array
\* is its child array, one cell per row
ArrowFromRows(type, rows) ==
    LET n == Len(rows)
        valid == [i \in 1..n |-> IF rows[i].isNull THEN 0 ELSE 1]
        vals == [i \in 1..n |-> rows[i].v]
    IN [type |-> type, length |-> n, offset |-> 0,
        validity |-> IF \E i \in 1..n : rows[i].isNull THEN Ptr(PackBits(valid))
                     ELSE NullPtr,
        offsets |-> IF type = "string" THEN Ptr(PrefixLens(vals, 0)) ELSE NullPtr,
        data |-> IF type = "int64" \/ type = "struct" THEN Ptr(vals)
                 ELSE IF type = "bool" THEN Ptr(PackBits(vals))
                 ELSE Ptr(Concat(vals))]

\* Array.slice(off, len): the same buffers, a new offset and length
ArrowSlice(a, off, len) == [a EXCEPT !.offset = a.offset + off, !.length = len]

\* Arrow's reading of row i of an array: its validity bit and its value
ArrowValid(a, i) == a.validity.isNull \/ BitmapBit(a.validity.mem, a.offset + i) = 1
ArrowValue(a, i) ==
    IF a.type = "int64" \/ a.type = "struct" THEN a.data.mem[a.offset + i + 1]
    ELSE IF a.type = "bool" THEN BitmapBit(a.data.mem, a.offset + i)
    ELSE SubSeq(a.data.mem, a.offsets.mem[a.offset + i + 1] + 1,
                a.offsets.mem[a.offset + i + 2])

NoArray == [type |-> "none", length |-> 0, offset |-> 0, validity |-> NullPtr,
            offsets |-> NullPtr, data |-> NullPtr]

(***************************************************************************)
(* Vectors: from_arrow, to_arrow, take.                                    *)
(***************************************************************************)
NoVec == [type |-> -1, length |-> 0, owns_data |-> FALSE, data |-> NullPtr,
          offsets |-> NullPtr, null_bitmap |-> NullPtr]

\* p + k elements: the same buffer, k elements further on
PtrAdd(p, k) ==
    IF p.isNull THEN p
    ELSE [isNull |-> FALSE, mem |-> SubSeq(p.mem, k + 1, Len(p.mem)),
          back |-> p.back \o SubSeq(p.mem, 1, k)]

\* p[idx] with no bounds check: the address is inside the buffer p points into
InBuffer(p, idx) == idx >= -Len(p.back) /\ idx < Len(p.mem)
\* and the element the buffer holds there
Deref(p, idx) == IF idx >= 0 THEN p.mem[idx + 1] ELSE p.back[Len(p.back) + idx + 1]

\* _wrap_int64: data is the data buffer's address plus offset * itemsize, the
\* null bitmap is the validity buffer's address
_wrap_int64(array) ==
    [type |-> DRAKEN_INT64, length |-> array.length, owns_data |-> FALSE,
     data |-> PtrAdd(array.data, array.offset),
     offsets |-> NullPtr,
     null_bitmap |-> array.validity]

\* from_arrow of the BoolVector: data is the data buffer's address plus offset >> 3
bool_from_arrow(array) ==
    [type |-> DRAKEN_BOOL, length |-> array.length, owns_data |-> FALSE,
     data |-> PtrAdd(array.data, array.offset \div 8),
     offsets |-> NullPtr,
     null_bitmap |-> array.validity]

\* from_arrow of the StringVector: the three buffers' addresses
string_from_arrow(array) ==
    [type |-> DRAKEN_STRING, length |-> array.length, owns_data |-> FALSE,
     data |-> array.data,
     offsets |-> array.offsets,
     null_bitmap |-> array.validity]

\* ChunkedArray.combine_chunks(): the rows of the chunks laid end to end in one
\* new array; an array that is not chunked has no such method and is kept
combine_chunks(array) ==
    IF "chunks" \in DOMAIN array
    THEN ArrowFromRows(array.type,
                       Concat([c \in 1..Len(array.chunks) |->
                                 [i \in 1..array.chunks[c].length |->
                                     Cell(~ArrowValid(array.chunks[c], i - 1),
                                          ArrowValue(array.chunks[c], i - 1))]]))
    ELSE array

RECURSIVE Decimal(_)
\* f"{val}" for an int: its decimal digits
Decimal(n) ==
    IF n < 0 THEN <<45>> \o Decimal(-n)
    ELSE IF n < 10 THEN <<48 + n>>
    ELSE Decimal(n \div 10) \o <<48 + (n % 10)>>

\* from_arrow_struct: an owned StringVector of n rows and n * 64 bytes, one JSON
\* text {"f": value} per row (null for None). The null bitmap is a copy of the
\* first (n + 7) // 8 bytes of the parent's validity buffer; a row whose bit
\* there is 0 (bit i, the array's offset not added) gets the empty range. The
\* rows here stay far below 64 bytes each
from_arrow_struct(array) ==
    LET n == array.length
        parent_null_bitmap == array.validity
        is_null(i) == /\ ~parent_null_bitmap.isNull
                      /\ BitmapBit(parent_null_bitmap.mem, i) = 0
        json(val) == <<123, 34, 102, 34, 58, 32>>
                        \o (IF val.isNull THEN <<110, 117, 108, 108>>
                            ELSE Decimal(val.v))
                        \o <<125>>
        vals == [i \in 1..n |-> IF is_null(i - 1) THEN <<>>
                                ELSE json(ArrowValue(array, i - 1))]
    IN [type |-> DRAKEN_STRING, length |-> n, owns_data |-> TRUE,
        data |-> Ptr(Concat(vals)),
        offsets |-> Ptr(PrefixLens(vals, 0)),
        null_bitmap |-> IF parent_null_bitmap.isNull THEN NullPtr
                        ELSE Ptr(SubSeq(parent_null_bitmap.mem, 1, BitmapBytes(n)))]

\* vector_from_arrow: the chunks combined, then the dispatch on the Arrow type.
\* The float64 vector wraps the data buffer as the int64 vector does, and the
\* fallback wraps the array as it is (no Draken buffer at all)
vector_from_arrow(chunked) ==
    LET array == combine_chunks(chunked)
        float64_from_arrow == [_wrap_int64(array) EXCEPT !.type = DRAKEN_FLOAT64]
        arrow_from_arrow ==
            [NoVec EXCEPT !.type = DRAKEN_NON_NATIVE, !.length = array.length]
    IN IF array.type = "int64" THEN _wrap_int64(array)
       ELSE IF array.type = "string" \/ array.type = "binary"
            THEN string_from_arrow(array)
       ELSE IF array.type = "float64" THEN float64_from_arrow
       ELSE IF array.type = "bool" THEN bool_from_arrow(array)
       ELSE IF array.type = "struct" THEN from_arrow_struct(array)
       ELSE arrow_from_arrow

\* the first n elements at p: pyarrow.foreign_buffer(address, size)
foreign_buffer(p, n) == IF p.isNull THEN p ELSE Ptr(SubSeq(p.mem, 1, n))

\* Int64Vector.to_arrow: the buffers are [None, data]; data_ptr.contents raises
\* ValueError for a NULL data pointer (an owned vector of no rows) and no array
\* is returned
Int64ToArrow(v) ==
    IF v.data.isNull THEN NoArray
    ELSE [type |-> "int64", length |-> v.length, offset |-> 0,
          validity |-> NullPtr, offsets |-> NullPtr,
          data |-> foreign_buffer(v.data, v.length)]

\* BoolVector.to_arrow
BoolToArrow(v) ==
    [type |-> "bool", length |-> v.length, offset |-> 0,
     validity |-> foreign_buffer(v.null_bitmap, BitmapBytes(v.length)),
     offsets |-> NullPtr,
     data |-> foreign_buffer(v.data, BitmapBytes(v.length))]

\* StringVector.to_arrow
StringToArrow(v) ==
    [type |-> "binary", length |-> v.length, offset |-> 0,
     validity |-> foreign_buffer(v.null_bitmap, BitmapBytes(v.length)),
     offsets |-> foreign_buffer(v.offsets, v.length + 1),
     data |-> foreign_buffer(v.data, v.offsets.mem[v.length + 1])]

to_arrow(v) ==
    IF v.type = DRAKEN_INT64 THEN Int64ToArrow(v)
    ELSE IF v.type = DRAKEN_BOOL THEN BoolToArrow(v)
    ELSE StringToArrow(v)

\* a vector's own reading of row i: the null test and the value of __getitem__
VecIsNull(v, i) == ~v.null_bitmap.isNull /\ BitmapBit(v.null_bitmap.mem, i) = 0
VecValue(v, i) ==
    IF v.type = DRAKEN_INT64 THEN v.data.mem[i + 1]
    ELSE IF v.type = DRAKEN_BOOL THEN BitmapBit(v.data.mem, i)
    ELSE SubSeq(v.data.mem, v.offsets.mem[i + 1] + 1, v.offsets.mem[i + 2])

InRange(v, idx) == idx >= 0 /\ idx < v.length
AllInRange(v, indices) == \A k \in 1..Len(indices) : InRange(v, indices[k])

\* what a read outside the source buffer may return: any int64 for an
\* Int64Vector (0, the value of a stored row, a value of no row), any bit for a
\* BoolVector
Garbage(v) == IF v.type = DRAKEN_INT64 THEN {0, 5, 77} ELSE {0, 1}

\* the result of a kernel call: for take the indices and the vector, for to_arrow
\* the array, for the other kernels their name (op), their argument (arg) and the
\* memoryview (mask) or the number (count) they return
NoOut == [status |-> "none", indices |-> <<>>, vec |-> NoVec, arr |-> NoArray,
          op |-> "none", arg |-> 0, mask |-> <<>>, count |-> 0]
TakeOk(indices, v) ==
    [NoOut EXCEPT !.status = "ok", !.op = "take", !.indices = indices, !.vec = v]
TakeFailed(status, indices) ==
    [NoOut EXCEPT !.status = status, !.op = "take", !.indices = indices]

\* Int64Vector.take: a new vector of n rows (no data block when n is 0), then
\* dst[i] = src[indices[i]] with no bounds check and no null bitmap on the
\* result; a read inside the Arrow buffer returns what the buffer
\* holds, row of the vector or not, and g[k] is what read k returns when its
\* address is outside the buffer
Int64Take(v, indices, g) ==
    LET n == Len(indices) IN
    TakeOk(indices,
           [type |-> DRAKEN_INT64, length |-> n, owns_data |-> TRUE,
            data |-> IF n = 0 THEN NullPtr
                     ELSE Ptr([k \in 1..n |-> IF InBuffer(v.data, indices[k])
                                              THEN Deref(v.data, indices[k])
                                              ELSE g[k]]),
            offsets |-> NullPtr, null_bitmap |-> NullPtr])

\* BoolVector.take: bit idx & 7 of src[idx >> 3] into a zeroed buffer, no bounds
\* check and no null bitmap on the result; g[k] is the bit read k returns when
\* its byte is outside the buffer
BoolTake(v, indices, g) ==
    LET n == Len(indices)
        bits == [k \in 1..n |-> IF InBuffer(v.data, indices[k] \div 8)
                                THEN BitOf(Deref(v.data, indices[k] \div 8),
                                           indices[k] % 8)
                                ELSE g[k]]
    IN TakeOk(indices,
              [type |-> DRAKEN_BOOL, length |-> n, owns_data |-> TRUE,
               data |-> Ptr(PackBits(bits)),
               offsets |-> NullPtr, null_bitmap |-> NullPtr])

\* the width of the uint8_t that holds the destination byte index in StringVector.take
ByteIdxModulus == 256

\* one turn of the second pass of StringVector.take: copy the null bit of row k
StampBit(bm, v, indices, k) ==
    LET src_bit == BitmapBit(v.null_bitmap.mem, indices[k + 1])
        dst_byte_idx == (k \div 8) % ByteIdxModulus
        dst_bit_idx == k % 8
    IN [bm EXCEPT ![dst_byte_idx + 1] =
           IF src_bit = 1 THEN OrBit(@, dst_bit_idx) ELSE ClearBit(@, dst_bit_idx)]

RECURSIVE StampRows(_, _, _, _, _)
\* the turns for rows lo..hi-1, in order: the lower half is complete (a bitmap
\* of the same size) before the upper half starts
StampRows(bm, v, indices, lo, hi) ==
    IF lo >= hi THEN bm
    ELSE IF lo + 1 = hi THEN StampBit(bm, v, indices, lo)
    ELSE LET mid == (lo + hi) \div 2
             lower == StampRows(bm, v, indices, lo, mid)
         IN CASE Len(lower) = Len(bm) -> StampRows(lower, v, indices, mid, hi)

\* the second pass of StringVector.take over rows k..n-1: copy each null bit
StampBits(bm, v, indices, k) == StampRows(bm, v, indices, k, Len(indices))

\* StringVector.take: the bounds check of the first pass, then the copy
StringTake(v, indices) ==
    LET n == Len(indices) IN
    IF ~AllInRange(v, indices) THEN TakeFailed("IndexError", indices)
    ELSE LET vals == [k \in 1..n |-> VecValue(v, indices[k])] IN
         TakeOk(indices,
                [type |-> DRAKEN_STRING, length |-> n, owns_data |-> TRUE,
                 data |-> Ptr(Concat(vals)),
                 offsets |-> Ptr(PrefixLens(vals, 0)),
                 null_bitmap |->
                     IF v.null_bitmap.isNull \/ n = 0 THEN NullPtr
                     ELSE Ptr(StampBits(AllValid(BitmapBytes(n)), v, indices, 0))])

\* the outcomes of v.take(indices): one when every read is inside the buffer;
\* else each read outside it returns a value of its own, or the process dies
TakeOutcomes(v, indices) ==
    LET wild == {k \in 1..Len(indices) :
                    ~InBuffer(v.data, IF v.type = DRAKEN_INT64 THEN indices[k]
                                      ELSE indices[k] \div 8)}
    IN IF v.type = DRAKEN_STRING THEN {StringTake(v, indices)}
       ELSE {IF v.type = DRAKEN_INT64 THEN Int64Take(v, indices, g)
             ELSE BoolTake(v, indices, g) : g \in [1..Len(indices) -> Garbage(v)]}
            \cup (IF wild = {} THEN {} ELSE {TakeFailed("crash", indices)})

\* the result of a kernel that fills a buffer of n entries and returns it as
\* <T[:n]> buf: the cast builds a cython.array of shape (n,), which raises
\* ValueError for a dimension that is not positive, so for n = 0 the call
\* raises and returns no memoryview
MaskOut(op, arg, mask) ==
    IF Len(mask) = 0
    THEN [NoOut EXCEPT !.status = "ValueError", !.op = op, !.arg = arg]
    ELSE [NoOut EXCEPT !.status = "ok", !.op = op, !.arg = arg, !.mask = mask]

\* the result of a kernel that returns a number
CountOut(op, count) == [NoOut EXCEPT !.status = "ok", !.op = op, !.count = count]

\* Int64Vector.compare: buf[i] = 1 if data[i] == value else 0, for every row
Int64Compare(v, value) ==
    MaskOut("compare", value,
            [k \in 1..v.length |-> IF v.data.mem[k] = value THEN 1 ELSE 0])

\* StringVector.equals: 0 for a row whose validity bit is 0, else the length test
\* and the memcmp
StringEquals(v, value) ==
    MaskOut("equals", value,
            [k \in 1..v.length |->
                IF ~v.null_bitmap.isNull /\ BitmapBit(v.null_bitmap.mem, k - 1) = 0
                THEN 0
                ELSE LET start == v.offsets.mem[k]
                         end == v.offsets.mem[k + 1]
                     IN IF end - start = Len(value)
                           /\ SubSeq(v.data.mem, start + 1, end) = value
                        THEN 1 ELSE 0])

\* BoolVector.equals: buf[i] = 1 if the data bit equals the target, for every row
BoolEquals(v, target) ==
    MaskOut("equals", target,
            [k \in 1..v.length |-> IF BitmapBit(v.data.mem, k - 1) = target THEN 1 ELSE 0])

\* BoolVector.not_equals: buf[i] = 1 if the data bit differs from the target
BoolNotEquals(v, target) ==
    MaskOut("not_equals", target,
            [k \in 1..v.length |-> IF BitmapBit(v.data.mem, k - 1) # target THEN 1 ELSE 0])

\* BoolVector.is_null: all 0 without a bitmap, else 1 where the validity bit is 0
BoolIsNull(v) ==
    MaskOut("is_null", 0,
            IF v.null_bitmap.isNull THEN [k \in 1..v.length |-> 0]
            ELSE [k \in 1..v.length |->
                    IF BitmapBit(v.null_bitmap.mem, k - 1) = 1 THEN 0 ELSE 1])

RECURSIVE CountZeroBits(_, _, _)
\* the counting loop of null_count over rows i..n-1
CountZeroBits(bm, i, n) ==
    IF i >= n THEN 0
    ELSE (IF BitmapBit(bm, i) = 0 THEN 1 ELSE 0) + CountZeroBits(bm, i + 1, n)

\* BoolVector.null_count
BoolNullCount(v) ==
    CountOut("null_count",
             IF v.null_bitmap.isNull THEN 0
             ELSE CountZeroBits(v.null_bitmap.mem, 0, v.length))

\* StringVector.null_count
StringNullCount(v) ==
    CountOut("null_count",
             IF v.null_bitmap.isNull THEN 0
             ELSE CountZeroBits(v.null_bitmap.mem, 0, v.length))

\* BoolVector.any: 1 when one of the (length + 7) >> 3 data bytes is not 0
BoolAny(v) ==
    CountOut("any",
             IF \E i \in 1..BitmapBytes(v.length) : v.data.mem[i] # 0 THEN 1 ELSE 0)

\* BoolVector.all: 0 when the bit of one of the rows 0..length-1 is 0
BoolAll(v) ==
    CountOut("all",
             IF \E i \in 0..(v.length - 1) : BitmapBit(v.data.mem, i) = 0 THEN 0 ELSE 1)

\* A uint64_t is a sequence of eight bytes, the least significant first.
\* NULL_HASH = 0x9e3779b97f4a7c15
NULL_HASH == <<21, 124, 74, 127, 185, 121, 55, 158>>
\* 0xcbf29ce484222325, the value h starts from
HashBasis == <<37, 35, 34, 132, 228, 156, 242, 203>>
\* 0x100000001b3, the multiplier
HashPrime == <<179, 1, 0, 0, 0, 1, 0, 0>>

RECURSIVE XorBits(_, _, _)
\* a ^ b on bits k..7 of two bytes
XorBits(a, b, k) ==
    IF k > 7 THEN 0
    ELSE ((BitOf(a, k) + BitOf(b, k)) % 2) * (2 ^ k) + XorBits(a, b, k + 1)

RECURSIVE ColumnSum(_, _, _, _)
\* the partial products a[i] * b[k - i] for i..k
ColumnSum(a, b, k, i) ==
    IF i > k THEN 0 ELSE a[i + 1] * b[k - i + 1] + ColumnSum(a, b, k, i + 1)

RECURSIVE MulBytes(_, _, _, _)
\* bytes k..7 of a * b, carry coming from the lower bytes
MulBytes(a, b, k, carry) ==
    IF k > 7 THEN <<>>
    ELSE LET t == carry + ColumnSum(a, b, k, 0)
         IN <<t % 256>> \o MulBytes(a, b, k + 1, t \div 256)

\* a * b on uint64_t: the product modulo 2^64
Mul64(a, b) == MulBytes(a, b, 0, 0)

RECURSIVE HashBytes(_, _)
\* the inner loop of StringVector.hash: h ^= p[i]; h *= 0x100000001b3
HashBytes(h, bytes) ==
    IF bytes = <<>> THEN h
    ELSE HashBytes(Mul64([h EXCEPT ![1] = XorBits(@, Head(bytes), 0)], HashPrime),
                   Tail(bytes))

\* StringVector.hash: NULL_HASH for a row whose validity bit is 0, else the hash
\* of the row's bytes
StringHash(v) ==
    MaskOut("hash", 0,
            [k \in 1..v.length |->
                IF ~v.null_bitmap.isNull /\ BitmapBit(v.null_bitmap.mem, k - 1) = 0
                THEN NULL_HASH
                ELSE HashBytes(HashBasis,
                               SubSeq(v.data.mem, v.offsets.mem[k] + 1,
                                      v.offsets.mem[k + 1]))])

\* the arguments a caller compares with
CompareValues == {0, 5, 9}
EqualsValues == {<<>>, <<97>>, <<98, 99>>}
BoolTargets == {0, 1}

IndexSeqs == UNION {[1..n -> -1..MaxLen] : n \in 0..MaxIdx}

\* the offsets buffers a foreign producer may hand over for n rows: n + 1
\* int32 values, in any order
ForeignOffsets(n) == [1..(n + 1) -> 0..MaxLen]

\* pyarrow.Array.from_buffers(string, n, [None, offsets, data]): the buffers are
\* taken as they are
ArrowFromBuffers(n, offs, size) ==
    [type |-> "string", length |-> n, offset |-> 0, validity |-> NullPtr,
     offsets |-> Ptr(offs), data |-> Ptr([k \in 1..size |-> 96 + k])]

\* the index arrays of a take of more rows than 8 * 256: row 0 everywhere but in
\* the last WideTail places
WideRows == 2049
WideTail == 3
WideSrcRows == 2
WideIndexSeqs ==
    {[k \in 1..WideRows |-> IF k <= WideRows - WideTail THEN 0
                            ELSE tail[k - (WideRows - WideTail)]] :
        tail \in [1..WideTail -> 0..(WideSrcRows - 1)]}

KernelIdle ==
    /\ karr = NoArray
    /\ kvec = NoVec
    /\ kout = NoOut
    /\ kpc = "idle"

KernelInit ==
    /\ \E type \in KernelArrowTypes, n \in 0..MaxLen :
         \E rows \in [1..n -> Cells(type)], off \in 0..n :
           \E len \in 0..(n - off) :
              karr = ArrowSlice(ArrowFromRows(type, rows), off, len)
    /\ kvec = NoVec
    /\ kout = NoOut
    /\ kpc = "array"

\* a string array built from buffers, not yet imported
ImportInit ==
    /\ \E n \in 0..MaxIdx, size \in 0..MaxLen :
         \E offs \in ForeignOffsets(n) : karr = ArrowFromBuffers(n, offs, size)
    /\ kvec = NoVec
    /\ kout = NoOut
    /\ kpc = "array"

\* pyarrow.chunked_array: the arrays as they are, one after the other
ChunkedArray(type, chunks) ==
    [type |-> type, length |-> Len(Concat([c \in 1..Len(chunks) |->
                                             [i \in 1..chunks[c].length |-> i]])),
     chunks |-> chunks]

\* a string array of WideSrcRows rows, whole or in chunks of one row (as the
\* column of a table is), not yet imported
WideInit ==
    /\ \E rows \in [1..WideSrcRows -> Cells("string")] :
         \/ karr = ArrowFromRows("string", rows)
         \/ karr = ChunkedArray("string",
                                [c \in 1..WideSrcRows |->
                                    ArrowFromRows("string", <<rows[c]>>)])
    /\ kvec = NoVec
    /\ kout = NoOut
    /\ kpc = "array"

FromArrow ==
    /\ kpc = "array"
    /\ kvec' = vector_from_arrow(karr)
    /\ kpc' = "vector"
    /\ UNCHANGED <<karr, kout>>
    /\ KernelStep

ToArrow ==
    /\ kpc = "vector"
    /\ kout' = [NoOut EXCEPT !.status = IF to_arrow(kvec) = NoArray THEN "ValueError"
                                       ELSE "ok",
                            !.op = "to_arrow", !.arr = to_arrow(kvec)]
    /\ kpc' = "exported"
    /\ UNCHANGED <<karr, kvec>>
    /\ KernelStep

Take ==
    /\ kpc = "vector"
    /\ \E indices \in IndexSeqs : kout' \in TakeOutcomes(kvec, indices)
    /\ kpc' = "taken"
    /\ UNCHANGED <<karr, kvec>>
    /\ KernelStep

\* StringVector.take with an index array of WideRows entries
WideTake ==
    /\ kpc = "vector"
    /\ \E indices \in WideIndexSeqs : kout' = StringTake(kvec, indices)
    /\ kpc' = "taken"
    /\ UNCHANGED <<karr, kvec>>
    /\ KernelStep

\* a kernel that reads the vector and returns a memoryview or a number
Compute(out) ==
    /\ kout' = out
    /\ kpc' = "computed"
    /\ UNCHANGED <<karr, kvec>>
    /\ KernelStep

Compare ==
    /\ kpc = "vector"
    /\ kvec.type = DRAKEN_INT64
    /\ \E value \in CompareValues : Compute(Int64Compare(kvec, value))

EqualsString ==
    /\ kpc = "vector"
    /\ kvec.type = DRAKEN_STRING
    /\ \E value \in EqualsValues : Compute(StringEquals(kvec, value))

EqualsBool ==
    /\ kpc = "vector"
    /\ kvec.type = DRAKEN_BOOL
    /\ \E target \in BoolTargets : Compute(BoolEquals(kvec, target))

NotEqualsBool ==
    /\ kpc = "vector"
    /\ kvec.type = DRAKEN_BOOL
    /\ \E target \in BoolTargets : Compute(BoolNotEquals(kvec, target))

IsNull ==
    /\ kpc = "vector"
    /\ kvec.type = DRAKEN_BOOL
    /\ Compute(BoolIsNull(kvec))

NullCount ==
    /\ kpc = "vector"
    /\ kvec.type \in {DRAKEN_BOOL, DRAKEN_STRING}
    /\ Compute(IF kvec.type = DRAKEN_BOOL THEN BoolNullCount(kvec)
               ELSE StringNullCount(kvec))

Hash ==
    /\ kpc = "vector"
    /\ kvec.type = DRAKEN_STRING
    /\ Compute(StringHash(kvec))

AnyTrue ==
    /\ kpc = "vector"
    /\ kvec.type = DRAKEN_BOOL
    /\ Compute(BoolAny(kvec))

AllTrue ==
    /\ kpc = "vector"
    /\ kvec.type = DRAKEN_BOOL
    /\ Compute(BoolAll(kvec))

KernelNext ==
    \/ FromArrow
    \/ ToArrow
    \/ Take
    \/ Compare
    \/ EqualsString
    \/ EqualsBool
    \/ NotEqualsBool
    \/ IsNull
    \/ NullCount
    \/ Hash
    \/ AnyTrue
    \/ AllTrue

(***************************************************************************)
(* Memory: who allocates and who frees the blocks behind a vector.         *)
(***************************************************************************)
\* a block of memory: the allocator it came from and the deallocators it has
\* been handed to so far; 0 is the NULL address, k > 0 is heap[k]
Block(alloc) == [alloc |-> alloc, frees |-> <<>>]
Live(h, k) == h[k].frees = <<>>

\* the heap after each block of ks is handed to deallocator `by`
Freed(h, ks, by) ==
    [k \in 1..Len(h) |-> IF k \in ks THEN [h[k] EXCEPT !.frees = Append(@, by)] ELSE h[k]]

NoMemVec ==
    [state |-> "none", kind |-> "none", owns_data |-> FALSE, struct |-> 0, data |-> 0,
     offsets |-> 0, null_bitmap |-> 0, length |-> 0, refs |-> {}, allocated |-> {},
     held |-> FALSE]
NoMemArray ==
    [state |-> "none", kind |-> "none", length |-> 0, validity |-> 0, offsets |-> 0,
     data |-> 0]
NoExport == [state |-> "none", buffers |-> {}, base |-> FALSE]

\* the buffers of an Arrow array, as array.buffers() lists them
ArrayBuffers(a) == {a.validity, a.offsets, a.data} \ {0}

\* an Arrow buffer is released by Arrow when nothing references it any more: the
\* array the caller holds, or a vector that stored the buffer objects
ArrowHeld(a, v) ==
    (IF a.state = "live" THEN ArrayBuffers(a) ELSE {})
        \cup (IF v.state = "live" THEN v.refs ELSE {})
ArrowReleased(h, a, v) ==
    Freed(h, {k \in 1..Len(h) : h[k].alloc = "arrow" /\ Live(h, k)
                                  /\ k \notin ArrowHeld(a, v)}, "arrow")

\* free_fixed_buffer(buf, owns_data)
free_fixed_buffer(h, v, owns_data) ==
    IF v.struct = 0 THEN h
    ELSE Freed(Freed(Freed(h,
             IF owns_data /\ v.data # 0 THEN {v.data} ELSE {}, "free"),
             IF v.null_bitmap # 0 THEN {v.null_bitmap} ELSE {}, "free"),
             {v.struct}, "free")

\* __dealloc__ of each vector class; the StringVector has none
Dealloc(h, v) ==
    IF v.kind = "Int64" THEN free_fixed_buffer(h, v, v.owns_data)
    ELSE IF v.kind = "Bool"
         THEN IF v.owns_data /\ v.struct # 0 THEN free_fixed_buffer(h, v, TRUE) ELSE h
    ELSE h

\* the vector object goes away once the caller has let go of it and no exported
\* buffer names it as its base
Unreferenced(v, e) == ~v.held /\ ~(e.state = "live" /\ e.base)

\* the state after the vector or the exported array was let go of
Collected(h, a, v, e) ==
    IF v.state = "live" /\ Unreferenced(v, e)
    THEN LET dead == [v EXCEPT !.state = "dead"]
         IN [heap |-> ArrowReleased(Dealloc(h, v), a, dead), vec |-> dead]
    ELSE [heap |-> h, vec |-> v]

MemKinds == {"Int64", "Bool", "String"}
\* the Arrow arrays vector_from_arrow has a Draken vector for
MemArrayKinds == MemKinds \cup {"Struct"}
\* where the null bitmap of a new owned StringVector comes from
BitmapAllocs == {"none", "PyMem_Malloc", "malloc"}
\* data blocks a builder may leave behind by growing
MaxReallocs == 1

HeapIdle ==
    /\ heap = <<>>
    /\ vecs = NoMemVec
    /\ arrw = NoMemArray
    /\ expo = NoExport

\* the caller builds an Arrow array; its buffers are Arrow's, and it has a
\* validity buffer when a row is null (the data of a struct array is its
\* child's)
MemArrowNew ==
    /\ arrw.state = "none"
    /\ vecs.state = "none"
    /\ \E kind \in MemArrayKinds, length \in 0..MaxLen, hasNulls \in BOOLEAN :
         LET n == Len(heap)
             nv == IF hasNulls THEN 1 ELSE 0
             no == IF kind = "String" THEN 1 ELSE 0
         IN /\ hasNulls => length > 0
            /\ heap' = heap \o [k \in 1..(nv + no + 1) |-> Block("arrow")]
            /\ arrw' = [state |-> "live", kind |-> kind, length |-> length,
                        validity |-> IF hasNulls THEN n + 1 ELSE 0,
                        offsets |-> IF kind = "String" THEN n + nv + 1 ELSE 0,
                        data |-> n + nv + no + 1]
    /\ UNCHANGED <<vecs, expo>>
    /\ HeapStep

\* from_arrow: _wrap_int64 keeps no buffer object, the from_arrow of the
\* BoolVector and of the StringVector keep them. from_arrow_struct addresses no
\* Arrow buffer: it builds an owned StringVector (the struct, the data and the
\* offsets of alloc_var_buffer) and, when the array has a validity buffer, a
\* null bitmap from malloc that holds a copy of it
MemFromArrow ==
    /\ arrw.state = "live"
    /\ vecs.state = "none"
    /\ LET n == Len(heap)
           nb == IF arrw.validity # 0 THEN 1 ELSE 0
       IN IF arrw.kind = "Struct"
          THEN /\ heap' = heap \o [k \in 1..(3 + nb) |-> Block("malloc")]
               /\ vecs' = [state |-> "live", kind |-> "String", owns_data |-> TRUE,
                           struct |-> n + 1, data |-> n + 2, offsets |-> n + 3,
                           null_bitmap |-> IF nb = 1 THEN n + 4 ELSE 0,
                           length |-> arrw.length, refs |-> {},
                           allocated |-> (n + 1)..(n + 3 + nb), held |-> TRUE]
          ELSE /\ heap' = Append(heap, Block("malloc"))
               /\ vecs' = [state |-> "live", kind |-> arrw.kind, owns_data |-> FALSE,
                           struct |-> n + 1, data |-> arrw.data,
                           offsets |-> arrw.offsets, null_bitmap |-> arrw.validity,
                           length |-> arrw.length,
                           refs |-> IF arrw.kind = "Int64" THEN {}
                                    ELSE ArrayBuffers(arrw),
                           allocated |-> {n + 1}, held |-> TRUE]
    /\ UNCHANGED <<arrw, expo>>
    /\ HeapStep

\* Int64Vector(length), BoolVector(length) and StringVector(length, bytes_cap),
\* from a caller, a builder, take or uppercase: alloc_fixed_buffer, and for the
\* BoolVector a second data block from PyMem_Malloc stored over the first; for
\* the StringVector alloc_var_buffer (the struct and the data from malloc, the
\* offsets from calloc) and, for a source with a null among one row or more, a
\* null bitmap: from PyMem_Malloc in take, from malloc in uppercase
MemNewOwned ==
    /\ vecs.state = "none"
    /\ arrw.state = "none"
    /\ \E kind \in MemKinds, length \in 0..MaxLen, bitmap \in BitmapAllocs :
         LET n == Len(heap)
             nd == IF length > 0 \/ kind = "String" THEN 1 ELSE 0
             no == IF kind = "String" THEN 1 ELSE 0
             nb == IF bitmap # "none" THEN 1 ELSE 0
             np == IF kind = "Bool" THEN 1 ELSE 0
         IN /\ bitmap # "none" => (kind = "String" /\ length > 0)
            /\ heap' = heap \o <<Block("malloc")>>
                            \o [k \in 1..(nd + no) |-> Block("malloc")]
                            \o [k \in 1..np |-> Block("PyMem_Malloc")]
                            \o [k \in 1..nb |-> Block(bitmap)]
            /\ vecs' = [state |-> "live", kind |-> kind, owns_data |-> TRUE,
                        struct |-> n + 1,
                        data |-> IF kind = "Bool" THEN n + nd + 2
                                 ELSE IF nd = 1 THEN n + 2 ELSE 0,
                        offsets |-> IF kind = "String" THEN n + 3 ELSE 0,
                        null_bitmap |-> IF nb = 1 THEN n + 4 ELSE 0,
                        length |-> length,
                        refs |-> {},
                        allocated |-> (n + 1)..(n + 1 + nd + no + np + nb),
                        held |-> TRUE]
    /\ UNCHANGED <<arrw, expo>>
    /\ HeapStep

\* the vector of a StringVectorBuilder, which the builder holds in _vec before
\* and after finish: a new StringVector, not one built from an Arrow array or
\* by take
Building(v) ==
    /\ v.state = "live" /\ v.held
    /\ v.kind = "String" /\ v.owns_data
    /\ arrw.state = "none"
    /\ IF v.null_bitmap = 0 THEN TRUE ELSE heap[v.null_bitmap].alloc = "malloc"

\* StringVectorBuilder._initialize_null_bitmap (append_null, set_null) and
\* set_validity_mask: a vector without a bitmap gets one from malloc, of one
\* byte at least. set_validity_mask does not look at _finished, so this also
\* happens after finish has handed the vector out and it was exported
MemBuilderNullBitmap ==
    /\ Building(vecs)
    /\ vecs.null_bitmap = 0
    /\ heap' = Append(heap, Block("malloc"))
    /\ vecs' = [vecs EXCEPT !.null_bitmap = Len(heap) + 1,
                            !.allocated = @ \cup {Len(heap) + 1}]
    /\ UNCHANGED <<arrw, expo>>
    /\ HeapStep

\* StringVectorBuilder._ensure_capacity: realloc of the data block, in a write
\* of a value, which takes a row to write to and a builder not finished yet (so
\* a vector not handed out). When the block moves the old one is released by
\* realloc and the data pointer is replaced; when it grows in place nothing
\* changes
MemBuilderGrow ==
    /\ Building(vecs)
    /\ vecs.length > 0
    /\ expo.state = "none"
    /\ Cardinality({k \in 1..Len(heap) : heap[k].frees = <<"realloc">>}) < MaxReallocs
    /\ heap' = Append(Freed(heap, {vecs.data}, "realloc"), Block("malloc"))
    /\ vecs' = [vecs EXCEPT !.data = Len(heap) + 1,
                            !.allocated = @ \cup {Len(heap) + 1}]
    /\ UNCHANGED <<arrw, expo>>
    /\ HeapStep

\* to_arrow: foreign buffers over the vector's blocks; only the StringVector
\* passes base=self. Int64Vector.to_arrow reads data_ptr.contents, which raises
\* ValueError for the NULL data pointer of an owned vector of length 0: no
\* array is exported
MemToArrow ==
    /\ vecs.state = "live"
    /\ vecs.held
    /\ expo.state = "none"
    /\ ~(vecs.kind = "Int64" /\ vecs.data = 0)
    /\ expo' = [state |-> "live",
                buffers |-> IF vecs.kind = "Int64" THEN {vecs.data} \ {0}
                            ELSE {vecs.data, vecs.offsets, vecs.null_bitmap} \ {0},
                base |-> vecs.kind = "String"]
    /\ UNCHANGED <<heap, vecs, arrw>>
    /\ HeapStep

\* the caller lets go of the Arrow array
MemDropArray ==
    /\ arrw.state = "live"
    /\ arrw' = [arrw EXCEPT !.state = "dropped"]
    /\ heap' = ArrowReleased(heap, arrw', vecs)
    /\ UNCHANGED <<vecs, expo>>
    /\ HeapStep

\* the caller lets go of the vector
MemDropVec ==
    /\ vecs.state = "live"
    /\ vecs.held
    /\ LET out == Collected(heap, arrw, [vecs EXCEPT !.held = FALSE], expo)
       IN heap' = out.heap /\ vecs' = out.vec
    /\ UNCHANGED <<arrw, expo>>
    /\ HeapStep

\* the caller lets go of the exported array
MemDropExport ==
    /\ expo.state = "live"
    /\ expo' = [expo EXCEPT !.state = "dropped"]
    /\ LET out == Collected(heap, arrw, vecs, expo')
       IN heap' = out.heap /\ vecs' = out.vec
    /\ UNCHANGED arrw
    /\ HeapStep

MemNext ==
    \/ MemArrowNew
    \/ MemFromArrow
    \/ MemNewOwned
    \/ MemBuilderNullBitmap
    \/ MemBuilderGrow
    \/ MemToArrow
    \/ MemDropArray
    \/ MemDropVec
    \/ MemDropExport

(***************************************************************************)
(* Morsel.                                                                 *)
(***************************************************************************)
\* rows of the Arrow table a morsel is built from
MaxRows == 1
\* columns of the Arrow table
MaxCols == 2
\* operations on morsels in one run, from_arrow included
MaxOps == 3
\* entries of the list handed to take, select or rename
MaxPick == 2

\* text is a sequence of code points, bytes a sequence of 0..255
\* str.encode("utf-8") of code points below 0x800
Utf8Char(cp) ==
    IF cp < 128 THEN <<cp>> ELSE <<192 + (cp \div 64), 128 + (cp % 64)>>
RECURSIVE Utf8Encode(_)
Utf8Encode(text) ==
    IF text = <<>> THEN <<>> ELSE Utf8Char(Head(text)) \o Utf8Encode(Tail(text))

\* bytes.decode("utf-8") of well-formed one- and two-byte sequences
RECURSIVE Utf8Decode(_)
Utf8Decode(bs) ==
    IF bs = <<>> THEN <<>>
    ELSE IF Head(bs) < 128 THEN <<Head(bs)>> \o Utf8Decode(Tail(bs))
    ELSE <<(Head(bs) - 192) * 64 + (bs[2] - 128)>> \o Utf8Decode(Tail(Tail(bs)))

\* the C string at a char*: the bytes before the first NUL
RECURSIVE CStr(_)
CStr(bs) ==
    IF bs = <<>> \/ Head(bs) = 0 THEN <<>> ELSE <<Head(bs)>> \o CStr(Tail(bs))

\* the column names a caller uses: "x" and a name outside ASCII
NameTexts == {<<120>>, <<233>>}

\* a name with a NUL inside: "x\0y"
NulName == <<120, 0, 121>>

\* a name as a caller passes it: text (str) or bytes
NameArg(kind, v) == [kind |-> kind, v |-> v]
NameArgs ==
    {NameArg("str", t) : t \in NameTexts}
        \cup {NameArg("bytes", <<120>>), NameArg("bytes", NulName)}

\* a vector as a morsel sees it: the object, its dtype and its length
MVec(id, type, length) == [id |-> id, type |-> type, length |-> length]

NoMorsel ==
    [exists |-> FALSE, num_rows |-> 0, num_columns |-> 0, columns |-> <<>>,
     column_names |-> <<>>, column_types |-> <<>>, _columns |-> <<>>,
     _encoded_names |-> <<>>]

\* the dtype of the vector vector_from_arrow builds for a column
ColumnDtype(arrowType) ==
    IF arrowType = "int64" THEN DRAKEN_INT64
    ELSE IF arrowType = "string" \/ arrowType = "binary" THEN DRAKEN_STRING
    ELSE IF arrowType = "float64" THEN DRAKEN_FLOAT64
    ELSE IF arrowType = "bool" THEN DRAKEN_BOOL
    ELSE IF arrowType = "struct" THEN DRAKEN_STRING
    ELSE DRAKEN_NON_NATIVE

\* Morsel.from_arrow: one vector per column, handles first, first + 1, ...
MorselFromArrow(table, first) ==
    LET n == Len(table.fields)
        vec == [i \in 1..n |->
                   MVec(first + i - 1, ColumnDtype(table.fields[i].type), table.num_rows)]
        encoded == [i \in 1..n |-> Utf8Encode(table.fields[i].name)]
    IN [exists |-> TRUE, num_rows |-> table.num_rows, num_columns |-> n,
        columns |-> vec, column_names |-> encoded,
        column_types |-> [i \in 1..n |-> vec[i].type],
        _columns |-> vec, _encoded_names |-> encoded]

\* the take of one column: StringVector.take checks the bounds, Int64Vector.take
\* and BoolVector.take do not
ColumnTakeRaises(vec, indices) ==
    vec.type = DRAKEN_STRING /\ \E k \in 1..Len(indices) :
        indices[k] < 0 \/ indices[k] >= vec.length
ColumnTakeUndefined(vec, indices) ==
    vec.type # DRAKEN_STRING /\ \E k \in 1..Len(indices) :
        indices[k] < 0 \/ indices[k] >= vec.length

\* Morsel.take with num_rows copied from the source morsel
MorselTakeKeepRows(m, indices, first, crash) ==
    LET n == m.num_columns
        vec == [i \in 1..n |-> MVec(first + i - 1, m.columns[i].type, Len(indices))]
    IN IF Len(indices) = 0 THEN [res |-> "ValueError", m |-> NoMorsel]
       ELSE [res |-> "ok",
             m |-> [exists |-> TRUE, num_rows |-> m.num_rows, num_columns |-> n,
                    columns |-> vec, column_names |-> m.column_names,
                    column_types |-> m.column_types,
                    _columns |-> vec, _encoded_names |-> m._encoded_names]]

\* Morsel.take: the indices as int32 (the conversion keeps every value that fits
\* and the indices here all fit) and the memoryview <int32_t[:n_indices]> over
\* them, which raises ValueError for no indices; then take on each column in
\* order; crash says whether a read outside a buffer ends the process
MorselTake(m, indices, first, crash) ==
    LET n == m.num_columns
        n_indices == Len(indices)
        idx == [k \in 1..n_indices |-> indices[k]]
        raises == {i \in 1..n : ColumnTakeRaises(m.columns[i], idx)}
        undefined == {i \in 1..n : ColumnTakeUndefined(m.columns[i], idx)}
        vec == [i \in 1..n |-> MVec(first + i - 1, m.columns[i].type, n_indices)]
    IN IF n_indices = 0 THEN [res |-> "ValueError", m |-> NoMorsel]
       ELSE IF crash /\ \E i \in undefined : \A j \in raises : i < j
       THEN [res |-> "crash", m |-> NoMorsel]
       ELSE IF raises # {} THEN [res |-> "IndexError", m |-> NoMorsel]
       ELSE [res |-> "ok",
             m |-> [exists |-> TRUE, num_rows |-> n_indices, num_columns |-> n,
                    columns |-> vec, column_names |-> m.column_names,
                    column_types |-> m.column_types,
                    _columns |-> vec, _encoded_names |-> m._encoded_names]]

\* the bytes select compares for a requested name
SelectName(arg) == IF arg.kind = "str" THEN Utf8Encode(arg.v) ELSE arg.v

\* the lowest column whose name strcmp finds equal, 0 when there is none
FirstColumnNamed(m, col_name) ==
    LET hits == {i \in 1..m.num_columns : CStr(m.column_names[i]) = CStr(col_name)}
    IN IF hits = {} THEN 0 ELSE CHOOSE i \in hits : \A j \in hits : i <= j

\* Morsel.select on a list of names
MorselSelect(m, args) ==
    LET column_indices == [k \in 1..Len(args) |-> FirstColumnNamed(m, SelectName(args[k]))]
        n_selected == Len(args)
    IN IF \E k \in 1..Len(args) : column_indices[k] = 0
       THEN [res |-> "KeyError", m |-> NoMorsel]
       ELSE [res |-> "ok",
             m |-> [exists |-> TRUE, num_rows |-> m.num_rows,
                    num_columns |-> n_selected,
                    columns |-> [j \in 1..n_selected |-> m.columns[column_indices[j]]],
                    column_names |->
                        [j \in 1..n_selected |-> m.column_names[column_indices[j]]],
                    column_types |->
                        [j \in 1..n_selected |-> m.column_types[column_indices[j]]],
                    _columns |-> [j \in 1..n_selected |-> m.columns[column_indices[j]]],
                    _encoded_names |->
                        [j \in 1..n_selected |-> m._encoded_names[column_indices[j]]]]]

\* no vector: what a call that returns no vector leaves
NoMVec == MVec(0, 0, 0)

\* Morsel.column returning the last column of that name
MorselColumnLast(m, name) ==
    LET hits == {i \in 1..m.num_columns : CStr(m.column_names[i]) = name}
    IN IF hits = {} THEN [res |-> "KeyError", vec |-> NoMVec]
       ELSE [res |-> "ok", vec |-> m.columns[CHOOSE i \in hits : \A j \in hits : i >= j]]

\* Morsel.column: column_names[i] (a char*, read as bytes up to the NUL) == name,
\* for i = 0, 1, ...; the first hit is returned
MorselColumn(m, name) ==
    LET hits == {i \in 1..m.num_columns : CStr(m.column_names[i]) = name}
    IN IF hits = {} THEN [res |-> "KeyError", vec |-> NoMVec]
       ELSE [res |-> "ok", vec |-> m.columns[CHOOSE i \in hits : \A j \in hits : i <= j]]

\* the second half of Morsel.rename: new_names[i].encode("utf-8") on each entry,
\* which only text has
MorselRenamed(m, new_names) ==
    LET n == m.num_columns
        encoded == [i \in 1..n |-> Utf8Encode(new_names[i].v)]
    IN IF \E i \in 1..n : new_names[i].kind # "str"
       THEN [res |-> "AttributeError", m |-> NoMorsel]
       ELSE [res |-> "ok",
             m |-> [exists |-> TRUE, num_rows |-> m.num_rows, num_columns |-> n,
                    columns |-> m.columns, column_names |-> encoded,
                    column_types |-> m.column_types,
                    _columns |-> m.columns, _encoded_names |-> encoded]]

\* Morsel.rename on a list of names
MorselRenameList(m, args) ==
    IF Len(args) # m.num_columns THEN [res |-> "ValueError", m |-> NoMorsel]
    ELSE MorselRenamed(m, args)

\* dict.get(key, default) on a dict given as a set of <<key, value>> pairs
DictGet(d, key, default) ==
    IF \E kv \in d : kv[1] = key THEN (CHOOSE kv \in d : kv[1] = key)[2] ELSE default

\* Morsel.rename on a dict from old text names to new text names
MorselRenameDict(m, d) ==
    MorselRenamed(m, [i \in 1..m.num_columns |->
        LET old_name == Utf8Decode(CStr(m.column_names[i]))
        IN NameArg("str", DictGet(d, old_name, old_name))])

\* the Arrow tables a morsel is built from
ArrowFields == [name : NameTexts, type : ArrowTypes]
ArrowTables ==
    UNION {[num_rows : 0..MaxRows, fields : [1..n -> ArrowFields]] : n \in 0..MaxCols}

PickIndexSeqs == UNION {[1..n -> -1..MaxRows] : n \in 0..MaxPick}
PickNameSeqs == UNION {[1..n -> NameArgs] : n \in 0..MaxPick}
RenameDicts == {{}} \cup {{<<old, new>>} : old \in NameTexts, new \in NameTexts}

\* the names column() is asked for
ColumnNames == {Utf8Encode(t) : t \in NameTexts} \cup {NulName}

\* a call: its arguments (mapping says that rename was given a dict), how it
\* ended, and the vector it returned when it returns one
NoMorselCall ==
    [op |-> "none", res |-> "ok", indices |-> <<>>, names |-> <<>>, dict |-> {},
     mapping |-> FALSE, vec |-> NoMVec]
MorselCalled(op, res, indices, names, dict) ==
    [NoMorselCall EXCEPT !.op = op, !.res = res, !.indices = indices,
                         !.names = names, !.dict = dict]

MorselIdle ==
    /\ morsel = NoMorsel
    /\ msrc = NoMorsel
    /\ mlast = NoMorselCall
    /\ mnext = 1
    /\ mops = 0

\* the caller holds a morsel and may call an operation on it
MorselReady ==
    /\ morsel.exists
    /\ mlast.op \in {"none", "from_arrow"}
    /\ mops < MaxOps

\* an operation on the current morsel: on success its result becomes the current
\* morsel, on an exception the current morsel stays
MorselCall(call, out, fresh) ==
    /\ mops' = mops + 1
    /\ msrc' = morsel
    /\ morsel' = IF out.res = "ok" THEN out.m ELSE morsel
    /\ mlast' = [call EXCEPT !.res = out.res]
    /\ mnext' = mnext + fresh
    /\ MorselStep

MFromArrow ==
    /\ ~morsel.exists
    /\ \E table \in ArrowTables :
         /\ morsel' = MorselFromArrow(table, mnext)
         /\ mnext' = mnext + Len(table.fields)
    /\ mops' = mops + 1
    /\ mlast' = MorselCalled("from_arrow", "ok", <<>>, <<>>, {})
    /\ UNCHANGED msrc
    /\ MorselStep

\* the caller keeps the current morsel and lets go of the morsel it came from
\* and the vectors of the kept morsel are numbered afresh, in column order
Renumbered(m) ==
    LET first(i) == CHOOSE j \in 1..i :
                        /\ m.columns[j].id = m.columns[i].id
                        /\ \A k \in 1..(j - 1) : m.columns[k].id # m.columns[i].id
        id(i) == Cardinality({m.columns[j].id : j \in 1..first(i)})
        vec == [i \in 1..m.num_columns |-> [m.columns[i] EXCEPT !.id = id(i)]]
    IN [m EXCEPT !.columns = vec, !._columns = vec]

MKeepResult ==
    /\ mlast.op \notin {"none", "from_arrow"}
    /\ mlast.res # "crash"
    /\ msrc' = NoMorsel
    /\ mlast' = NoMorselCall
    /\ morsel' = Renumbered(morsel)
    /\ mnext' = Cardinality({morsel.columns[i].id : i \in 1..morsel.num_columns}) + 1
    /\ UNCHANGED mops
    /\ MorselStep

MTake ==
    /\ MorselReady
    /\ \E indices \in PickIndexSeqs :
      \E crash \in {FALSE} \cup {\E i \in 1..morsel.num_columns :
                                  ColumnTakeUndefined(morsel.columns[i], indices)} :
        MorselCall(MorselCalled("take", "ok", indices, <<>>, {}),
                   MorselTake(morsel, indices, mnext, crash), morsel.num_columns)

MSelect ==
    /\ MorselReady
    /\ \E args \in PickNameSeqs :
        MorselCall(MorselCalled("select", "ok", <<>>, args, {}),
                   MorselSelect(morsel, args), 0)

\* select with a single name, text or bytes, is select on the one-element list
MSelectOne ==
    /\ MorselReady
    /\ \E arg \in NameArgs :
        MorselCall(MorselCalled("select", "ok", <<>>, <<arg>>, {}),
                   MorselSelect(morsel, <<arg>>), 0)

MRenameList ==
    /\ MorselReady
    /\ \E args \in PickNameSeqs :
        MorselCall(MorselCalled("rename", "ok", <<>>, args, {}),
                   MorselRenameList(morsel, args), 0)

MRenameDict ==
    /\ MorselReady
    /\ \E d \in RenameDicts :
        MorselCall([MorselCalled("rename", "ok", <<>>, <<>>, d) EXCEPT !.mapping = TRUE],
                   MorselRenameDict(morsel, d), 0)

\* column(name) returns a vector of the current morsel, which stays
MColumn ==
    /\ MorselReady
    /\ \E name \in ColumnNames :
         LET out == MorselColumn(morsel, name) IN
         mlast' = [MorselCalled("column", out.res, <<>>, <<NameArg("bytes", name)>>, {})
                      EXCEPT !.vec = out.vec]
    /\ mops' = mops + 1
    /\ msrc' = morsel
    /\ UNCHANGED <<morsel, mnext>>
    /\ MorselStep

MorselNext ==
    \/ MFromArrow
    \/ MTake
    \/ MSelect
    \/ MSelectOne
    \/ MRenameList
    \/ MRenameDict
    \/ MColumn
    \/ MKeepResult

(***************************************************************************)
(* Type tags and the operation dispatch table.                             *)
(***************************************************************************)
\* the enumerators of DrakenType in buffers.h, in order: the k-th has code k - 1
DrakenTypeEnum ==
    <<"DRAKEN_INT8", "DRAKEN_INT16", "DRAKEN_INT32", "DRAKEN_INT64",
      "DRAKEN_FLOAT32", "DRAKEN_FLOAT64", "DRAKEN_DATE32", "DRAKEN_TIMESTAMP64",
      "DRAKEN_BOOL", "DRAKEN_STRING", "DRAKEN_ARRAY">>

\* the type a vector's dtype stands for: an enumerator of buffers.h, or the
\* pass-through wrapper's own tag
DrakenTypeName(code) ==
    IF code = DRAKEN_NON_NATIVE THEN "DRAKEN_NON_NATIVE"
    ELSE DrakenTypeEnum[code + 1]

\* DrakenTypeInt._enum_name: the name printed for a code, UNKNOWN(code) for a
\* code the mapping does not hold
_enum_name(code) ==
    CASE code = 1 -> "DRAKEN_INT8"
      [] code = 2 -> "DRAKEN_INT16"
      [] code = 3 -> "DRAKEN_INT32"
      [] code = 4 -> "DRAKEN_INT64"
      [] code = 20 -> "DRAKEN_FLOAT32"
      [] code = 21 -> "DRAKEN_FLOAT64"
      [] code = 30 -> "DRAKEN_DATE32"
      [] code = 40 -> "DRAKEN_TIMESTAMP64"
      [] code = 50 -> "DRAKEN_BOOL"
      [] code = 60 -> "DRAKEN_STRING"
      [] code = 80 -> "DRAKEN_ARRAY"
      [] code = 100 -> "DRAKEN_NON_NATIVE"
      [] OTHER -> "UNKNOWN(" \o ToString(code) \o ")"

\* the Arrow data types an array may have
ArrowDataTypes ==
    {"int8", "int16", "int32", "int64", "float32", "float64", "date32",
     "timestamp", "bool", "string", "binary", "large_string", "list",
     "large_list", "struct", "decimal128"}

\* arrow_type_to_draken: the chain of pyarrow.types.is_* tests
arrow_type_to_draken(dtype) ==
    CASE dtype = "int8" -> "DRAKEN_INT8"
      [] dtype = "int16" -> "DRAKEN_INT16"
      [] dtype = "int32" -> "DRAKEN_INT32"
      [] dtype = "int64" -> "DRAKEN_INT64"
      [] dtype = "float32" -> "DRAKEN_FLOAT32"
      [] dtype = "float64" -> "DRAKEN_FLOAT64"
      [] dtype = "date32" -> "DRAKEN_DATE32"
      [] dtype = "timestamp" -> "DRAKEN_TIMESTAMP64"
      [] dtype = "bool" -> "DRAKEN_BOOL"
      [] dtype \in {"string", "large_string"} -> "DRAKEN_STRING"
      [] dtype \in {"list", "large_list"} -> "DRAKEN_ARRAY"
      [] OTHER -> "DRAKEN_NON_NATIVE"

\* the tag of the vector vector_from_arrow builds for an array of a type
ImportedVectorTag(dtype) ==
    DrakenTypeName(vector_from_arrow([NoArray EXCEPT !.type = dtype]).type)

\* the TYPE_* constants and the operation enums of the dispatch table
DispatchTypes == {1, 2, 3, 4, 20, 21, 30, 40, 41, 42, 50, 60, 80, 100}
NumericTypes == {1, 2, 3, 4, 20, 21}
ArithmeticOps == {1, 2, 3, 4}
ComparisonOps == {10, 11, 12, 13, 14, 15}
BooleanOps == {20, 21, 22}
TYPE_BOOL == 50

\* the compatibility check of the dispatch table
types_compatible(left_type, left_is_scalar, right_type, right_is_scalar, op) ==
    IF left_is_scalar /\ ~right_is_scalar THEN FALSE
    ELSE IF op \in ArithmeticOps
         THEN left_type = right_type /\ left_type \in NumericTypes
    ELSE IF op \in ComparisonOps THEN left_type = right_type
    ELSE left_type = TYPE_BOOL /\ right_type = TYPE_BOOL

\* get_op: the compatibility check, then no function pointer in either case
get_op(left_type, left_is_scalar, right_type, right_is_scalar, op) ==
    IF types_compatible(left_type, left_is_scalar, right_type, right_is_scalar, op)
    THEN "None"
    ELSE "None"

NoLookup ==
    [fn |-> "none", type |-> "none", left_type |-> 0, left_is_scalar |-> FALSE,
     right_type |-> 0, right_is_scalar |-> FALSE, op |-> 0]

DispatchIdle ==
    /\ dcall = NoLookup
    /\ dres = "none"

ArrowTypeToDraken ==
    /\ dcall.fn = "none"
    /\ \E dtype \in ArrowDataTypes :
         /\ dcall' = [NoLookup EXCEPT !.fn = "arrow_type_to_draken", !.type = dtype]
         /\ dres' = arrow_type_to_draken(dtype)
    /\ DispatchStep

VectorFromArrowTag ==
    /\ dcall.fn = "none"
    /\ \E dtype \in ArrowDataTypes :
         /\ dcall' = [NoLookup EXCEPT !.fn = "vector_from_arrow", !.type = dtype]
         /\ dres' = ImportedVectorTag(dtype)
    /\ DispatchStep

GetOp ==
    /\ dcall.fn = "none"
    /\ \E left_type \in DispatchTypes, right_type \in DispatchTypes,
          left_is_scalar \in BOOLEAN, right_is_scalar \in BOOLEAN,
          op \in ArithmeticOps \cup ComparisonOps \cup BooleanOps :
         /\ dcall' = [NoLookup EXCEPT !.fn = "get_op",
                                      !.left_type = left_type,
                                      !.left_is_scalar = left_is_scalar,
                                      !.right_type = right_type,
                                      !.right_is_scalar = right_is_scalar,
                                      !.op = op]
         /\ dres' = get_op(left_type, left_is_scalar, right_type, right_is_scalar, op)
    /\ DispatchStep

\* the lookup returns to its caller
DispatchReturn ==
    /\ dcall.fn # "none"
    /\ dcall' = NoLookup
    /\ dres' = "none"
    /\ DispatchStep

DispatchNext ==
    \/ ArrowTypeToDraken
    \/ VectorFromArrowTag
    \/ GetOp
    \/ DispatchReturn

(***************************************************************************)
(* Morsels and the objects they hold: reference counts and __dealloc__.    *)
(***************************************************************************)
\* Morsel objects a caller makes, columns of a table, Python objects allocated
MaxMorsels == 3
MaxLifeCols == 1
MaxObjs == 6

\* a Python object (a Vector or the bytes of a name): not allocated yet, live
\* with a reference count, or destroyed
NoObj == [state |-> "unused", refs |-> 0]
LiveObj(refs) == [state |-> "live", refs |-> refs]
DeadObj == [state |-> "destroyed", refs |-> 0]

\* a Morsel: the lists _columns and _encoded_names own references, ptr.columns
\* and ptr.column_names are bare pointers to the same objects
NoHeld == [state |-> "none", _columns |-> <<>>, _encoded_names |-> <<>>,
           columns |-> <<>>, column_names |-> <<>>]
Held(_columns, _encoded_names, columns, column_names) ==
    [state |-> "live", _columns |-> _columns, _encoded_names |-> _encoded_names,
     columns |-> columns, column_names |-> column_names]

\* how many places of a list refer to an object
Occurs(ids, o) == Cardinality({j \in 1..Len(ids) : ids[j] = o})

\* Py_INCREF for every place of the lists
AddRefs(objs, ids) ==
    [o \in DOMAIN objs |->
        IF Occurs(ids, o) = 0 THEN objs[o]
        ELSE LiveObj(objs[o].refs + Occurs(ids, o))]

\* Py_DECREF for every place of the lists: an object whose count reaches 0 is
\* destroyed
DropRefs(objs, ids) ==
    [o \in DOMAIN objs |->
        IF Occurs(ids, o) = 0 THEN objs[o]
        ELSE IF objs[o].refs - Occurs(ids, o) <= 0 THEN DeadObj
        ELSE LiveObj(objs[o].refs - Occurs(ids, o))]

\* the objects allocated so far, and k new ones
Allocated(objs) == Cardinality({o \in DOMAIN objs : objs[o].state # "unused"})
FreshIds(objs, k, skip) == [j \in 1..k |-> Allocated(objs) + skip + j]
NewObjs(objs, ids) ==
    [o \in DOMAIN objs |-> IF Occurs(ids, o) > 0 THEN LiveObj(1) ELSE objs[o]]

\* the outcome of an operation: the objects and the morsel it returned
HeldOut(objs, m) == [objs |-> objs, m |-> m]

\* Morsel.from_arrow: a new vector and a new bytes name for every column, each
\* stored in the lists and pointed to by ptr
HeldFromArrow(objs, n) ==
    LET vs == FreshIds(objs, n, 0)
        ns == FreshIds(objs, n, n)
    IN HeldOut(NewObjs(objs, vs \o ns), Held(vs, ns, vs, ns))

\* Morsel.take: a new vector for every column; the names are the source's bytes
\* objects, stored in the result's list as well
HeldTake(objs, src) ==
    LET vs == FreshIds(objs, Len(src.columns), 0)
    IN HeldOut(AddRefs(NewObjs(objs, vs), src._encoded_names),
               Held(vs, src._encoded_names, vs, src.column_names))

\* Morsel.select with the result's lists left empty: the result only points
SelectBorrowed(objs, src, column_indices) ==
    LET vs == [j \in 1..Len(column_indices) |-> src.columns[column_indices[j]]]
        ns == [j \in 1..Len(column_indices) |-> src.column_names[column_indices[j]]]
    IN HeldOut(objs, Held(<<>>, <<>>, vs, ns))

\* Morsel.select: the source's vectors and bytes objects, stored in the result's
\* lists and pointed to by its ptr
HeldSelect(objs, src, column_indices) ==
    LET vs == [j \in 1..Len(column_indices) |-> src.columns[column_indices[j]]]
        es == [j \in 1..Len(column_indices) |-> src._encoded_names[column_indices[j]]]
        ns == [j \in 1..Len(column_indices) |-> src.column_names[column_indices[j]]]
    IN HeldOut(AddRefs(objs, vs \o es), Held(vs, es, vs, ns))

\* Morsel.rename: the source's vectors, and a new bytes object for every name
HeldRename(objs, src) ==
    LET vs == src.columns
        ns == FreshIds(objs, Len(vs), 0)
    IN HeldOut(AddRefs(NewObjs(objs, ns), vs), Held(vs, ns, vs, ns))

\* the last reference to a Morsel goes: __dealloc__ frees the ptr arrays, then
\* the two lists are cleared
MorselDealloc(objs, m) ==
    HeldOut(DropRefs(objs, m._columns \o m._encoded_names),
            [m EXCEPT !.state = "dropped"])

NoLifeOp == [op |-> "none", src |-> 0, dst |-> 0]

LifeIdle ==
    /\ lobj = [o \in 1..MaxObjs |-> NoObj]
    /\ lmor = [h \in 1..MaxMorsels |-> NoHeld]
    /\ llast = NoLifeOp

\* the handle the next Morsel gets
NextHandle == Cardinality({h \in DOMAIN lmor : lmor[h].state # "none"}) + 1

\* an operation returned a Morsel to the caller
LifeReturn(op, src, out) ==
    /\ lobj' = out.objs
    /\ lmor' = [lmor EXCEPT ![NextHandle] = out.m]
    /\ llast' = [op |-> op, src |-> src, dst |-> NextHandle]
    /\ LifeStep

LFromArrow ==
    /\ NextHandle <= MaxMorsels
    /\ \E n \in 0..MaxLifeCols :
         /\ Allocated(lobj) + 2 * n <= MaxObjs
         /\ LifeReturn("from_arrow", 0, HeldFromArrow(lobj, n))

LTake ==
    /\ NextHandle <= MaxMorsels
    /\ \E h \in DOMAIN lmor :
         /\ lmor[h].state = "live"
         /\ Allocated(lobj) + Len(lmor[h].columns) <= MaxObjs
         /\ LifeReturn("take", h, HeldTake(lobj, lmor[h]))

LSelect ==
    /\ NextHandle <= MaxMorsels
    /\ \E h \in DOMAIN lmor :
         /\ lmor[h].state = "live"
         /\ \E k \in 0..MaxLifeCols :
              \E column_indices \in [1..k -> 1..Len(lmor[h].columns)] :
                 LifeReturn("select", h, HeldSelect(lobj, lmor[h], column_indices))

LRename ==
    /\ NextHandle <= MaxMorsels
    /\ \E h \in DOMAIN lmor :
         /\ lmor[h].state = "live"
         /\ Allocated(lobj) + Len(lmor[h].columns) <= MaxObjs
         /\ LifeReturn("rename", h, HeldRename(lobj, lmor[h]))

LDrop ==
    /\ \E h \in DOMAIN lmor :
         /\ lmor[h].state = "live"
         /\ LET out == MorselDealloc(lobj, lmor[h]) IN
            /\ lobj' = out.objs
            /\ lmor' = [lmor EXCEPT ![h] = out.m]
         /\ llast' = [op |-> "drop", src |-> h, dst |-> 0]
    /\ LifeStep

LifeNext ==
    \/ LFromArrow
    \/ LTake
    \/ LSelect
    \/ LRename
    \/ LDrop

(***************************************************************************)
(* SSTable: match_equals, the binary search over the key block.            *)
(***************************************************************************)
\* keys are 1..MaxKey; 0 is the empty byte string
MaxKey == 3
KEY_ENTRY_SIZE == 72

\* a uint32_t as two 16-bit halves
LimbBase == 2 ^ 16
U32(hi, lo) == [hi |-> hi, lo |-> lo]
U32Of(n) == U32(n \div LimbBase, n % LimbBase)
U32Max == U32(LimbBase - 1, LimbBase - 1)

\* a + b, a - 1, a // 2, a * k and a <= b on uint32_t (overflowcheck=False)
U32Add(a, b) ==
    U32((a.hi + b.hi + (a.lo + b.lo) \div LimbBase) % LimbBase, (a.lo + b.lo) % LimbBase)
U32Dec(a) == U32Add(a, U32Max)
U32Inc(a) == U32Add(a, U32Of(1))
U32Half(a) == U32(a.hi \div 2, a.lo \div 2 + (a.hi % 2) * (LimbBase \div 2))
U32Mul(a, k) ==
    U32((a.hi * k + (a.lo * k) \div LimbBase) % LimbBase, (a.lo * k) % LimbBase)
U32Leq(a, b) == a.hi < b.hi \/ (a.hi = b.hi /\ a.lo <= b.lo)

\* the key blocks create_sstable writes: the keys of a dict, sorted
RECURSIVE SortedKeys(_)
SortedKeys(keys) ==
    IF keys = {} THEN <<>>
    ELSE LET least == CHOOSE k \in keys : \A other \in keys : k <= other
         IN <<least>> \o SortedKeys(keys \ {least})

KeyBlocks == {SortedKeys(keys) : keys \in SUBSET (1..MaxKey)}

\* BloomFilter.possibly_contains: 1 for a stored key; for another key 1 when the
\* bits of its two hashes were set by stored keys, which no key of an empty
\* table has done
BloomAnswers(table, key) ==
    IF \E i \in 1..Len(table) : table[i] = key THEN {TRUE}
    ELSE IF Len(table) = 0 THEN {FALSE}
    ELSE {TRUE, FALSE}

\* key_block[mid_offset : mid_offset + KEY_ENTRY_SIZE] and KeyEntry.deserialize:
\* the entry when the slice is a whole entry of the block, else what is left of
\* an empty or short slice, the empty key
ProbeInside(table, mid) ==
    LET mid_offset == U32Mul(mid, KEY_ENTRY_SIZE)
        stop == U32Add(mid_offset, U32Of(KEY_ENTRY_SIZE))
    IN /\ mid_offset.hi = 0
       /\ stop.hi = 0
       /\ mid_offset.lo % KEY_ENTRY_SIZE = 0
       /\ stop.lo <= Len(table) * KEY_ENTRY_SIZE
       /\ mid_offset.lo < stop.lo

ProbedKey(table, mid) ==
    IF ProbeInside(table, mid)
    THEN table[U32Mul(mid, KEY_ENTRY_SIZE).lo \div KEY_ENTRY_SIZE + 1]
    ELSE 0

\* what match_equals returns
NoAnswer == [kind |-> "none", key |-> 0]
EmptyList == [kind |-> "empty", key |-> 0]
ValueOf(key) == [kind |-> "value", key |-> key]
\* the value unpacked at an offset read outside the key block
Undefined == [kind |-> "undefined", key |-> 0]

\* one turn of the while loop of match_equals
SearchTurn(table, key, low, high) ==
    LET mid == U32Half(U32Add(low, high))
        found == ProbedKey(table, mid)
    IN IF found = key
       THEN [pc |-> "done", low |-> low, high |-> high, mid |-> mid,
             res |-> IF ProbeInside(table, mid) THEN ValueOf(key) ELSE Undefined]
       ELSE IF found < key
       THEN [pc |-> "search", low |-> U32Inc(mid), high |-> high, mid |-> mid,
             res |-> NoAnswer]
       ELSE [pc |-> "search", low |-> low, high |-> U32Dec(mid), mid |-> mid,
             res |-> NoAnswer]

SearchIdle ==
    /\ stab = <<>>
    /\ skey = 0
    /\ slow = U32Of(0)
    /\ shigh = U32Of(0)
    /\ smid = U32Of(0)
    /\ spc = "idle"
    /\ sres = NoAnswer

\* match_equals up to the loop: the Bloom filter, then low = 0 and
\* high = len(key_block) // KEY_ENTRY_SIZE - 1
SStart ==
    /\ spc = "idle"
    /\ \E table \in KeyBlocks, key \in 0..(MaxKey + 1) :
         \E passes \in BloomAnswers(table, key) :
            /\ stab' = table
            /\ skey' = key
            /\ slow' = U32Of(0)
            /\ shigh' = IF passes THEN U32Dec(U32Of(Len(table))) ELSE U32Of(0)
            /\ spc' = IF passes THEN "search" ELSE "done"
            /\ sres' = IF passes THEN NoAnswer ELSE EmptyList
    /\ UNCHANGED smid
    /\ SearchStep

\* one turn of the loop
SProbe ==
    /\ spc = "search"
    /\ U32Leq(slow, shigh)
    /\ LET t == SearchTurn(stab, skey, slow, shigh) IN
       /\ slow' = t.low
       /\ shigh' = t.high
       /\ smid' = t.mid
       /\ spc' = t.pc
       /\ sres' = t.res
    /\ UNCHANGED <<stab, skey>>
    /\ SearchStep

\* the loop ends with low > high: the key was not found
SNotFound ==
    /\ spc = "search"
    /\ ~U32Leq(slow, shigh)
    /\ spc' = "done"
    /\ sres' = EmptyList
    /\ UNCHANGED <<stab, skey, slow, shigh, smid>>
    /\ SearchStep

SearchNext ==
    \/ SStart
    \/ SProbe
    \/ SNotFound

(***************************************************************************)
(* Specifications.                                                         *)
(***************************************************************************)
InitBuilder == BuilderIdle /\ KernelIdle /\ HeapIdle /\ MorselIdle /\ DispatchIdle /\ LifeIdle /\ SearchIdle
SpecBuilder == InitBuilder /\ [][BuilderNext]_vars

InitKernel == BuilderIdle /\ KernelInit /\ HeapIdle /\ MorselIdle /\ DispatchIdle /\ LifeIdle /\ SearchIdle
SpecKernel == InitKernel /\ [][KernelNext]_vars

InitMem == BuilderIdle /\ KernelIdle /\ HeapIdle /\ MorselIdle /\ DispatchIdle /\ LifeIdle /\ SearchIdle
SpecMem == InitMem /\ [][MemNext]_vars

InitImport == BuilderIdle /\ ImportInit /\ HeapIdle /\ MorselIdle /\ DispatchIdle /\ LifeIdle /\ SearchIdle
ImportNext == FromArrow
SpecImport == InitImport /\ [][ImportNext]_vars

InitWideTake == BuilderIdle /\ WideInit /\ HeapIdle /\ MorselIdle /\ DispatchIdle /\ LifeIdle /\ SearchIdle
WideTakeNext ==
    \/ FromArrow
    \/ WideTake
SpecWideTake == InitWideTake /\ [][WideTakeNext]_vars

InitGrow == BuilderIdle /\ KernelIdle /\ HeapIdle /\ MorselIdle /\ DispatchIdle /\ LifeIdle /\ SearchIdle
GrowNext ==
    \/ NewWithEstimate
    \/ GrowAppend
    \/ BAppendNull
    \/ BSet
    \/ BSetNull
    \/ BSetValidityMask
    \/ BFinish
SpecGrow == InitGrow /\ [][GrowNext]_vars

InitLife == BuilderIdle /\ KernelIdle /\ HeapIdle /\ MorselIdle /\ DispatchIdle /\ LifeIdle /\ SearchIdle
SpecLife == InitLife /\ [][LifeNext]_vars

InitSearch == BuilderIdle /\ KernelIdle /\ HeapIdle /\ MorselIdle /\ DispatchIdle /\ LifeIdle /\ SearchIdle
SpecSearch == InitSearch /\ [][SearchNext]_vars
\* the loop runs on its own: a turn that can be taken is taken
SpecSearchFair == SpecSearch /\ WF_vars(SearchNext)

InitDispatch == BuilderIdle /\ KernelIdle /\ HeapIdle /\ MorselIdle /\ DispatchIdle /\ LifeIdle /\ SearchIdle
SpecDispatch == InitDispatch /\ [][DispatchNext]_vars

InitMorsel == BuilderIdle /\ KernelIdle /\ HeapIdle /\ MorselIdle /\ DispatchIdle /\ LifeIdle /\ SearchIdle
SpecMorsel == InitMorsel /\ [][MorselNext]_vars

(***************************************************************************)
(* The properties of the specification, each stated over the component it  *)
(* is about.                                                               *)
(***************************************************************************)
MorselWellFormed(m) ==
    m.exists =>
        /\ Len(m.columns) = m.num_columns
        /\ Len(m.column_names) = m.num_columns
        /\ Len(m.column_types) = m.num_columns
        /\ \A i \in 1..m.num_columns :
              /\ m.columns[i].length = m.num_rows
              /\ m.columns[i].type = m.column_types[i]

\* C1: in every morsel reached by from_arrow, take, select and rename the column
\* list, the name list and the type list have length num_columns, every column
\* vector has length num_rows and its type tag is the column_types entry
C1_MorselShape == MorselWellFormed(morsel) /\ MorselWellFormed(msrc)

\* a take returned a two-column morsel whose row count differs from its source's
C1_TakeChangedRows ==
    /\ mlast.op = "take"
    /\ mlast.res = "ok"
    /\ morsel.num_columns = 2
    /\ morsel.num_rows # msrc.num_rows

\* C2: for an Int64Vector or a BoolVector and indices all within [0, length),
\* take returns a vector of length len(I) whose k-th value and k-th null flag are
\* those of the source at I[k]
C2_TakeKeepsValuesAndNulls ==
    (kpc = "taken" /\ kvec.type \in {DRAKEN_INT64, DRAKEN_BOOL}
        /\ AllInRange(kvec, kout.indices)) =>
        /\ kout.status = "ok"
        /\ kout.vec.length = Len(kout.indices)
        /\ \A k \in 1..Len(kout.indices) :
              /\ VecValue(kout.vec, k - 1) = VecValue(kvec, kout.indices[k])
              /\ VecIsNull(kout.vec, k - 1) = VecIsNull(kvec, kout.indices[k])

\* C3: take with an index that is negative or not below the length fails with
\* an index error for every vector type, and returns no vector
C3_TakeOutOfRangeFails ==
    (kpc = "taken" /\ ~AllInRange(kvec, kout.indices)) =>
        /\ kout.status = "IndexError"
        /\ kout.vec = NoVec

\* the blocks a vector's data, offsets and null_bitmap pointers address
Addressed(v) == {v.data, v.offsets, v.null_bitmap} \ {0}

\* C4: destroying a borrowed vector hands none of the Arrow array's buffers,
\* neither the data nor the null bitmap, to free
C4_BorrowedFreesNoArrowBuffer ==
    (vecs.state = "dead" /\ ~vecs.owns_data) =>
        \A k \in Addressed(vecs) :
            \A j \in 1..Len(heap[k].frees) : heap[k].frees[j] = "arrow"

\* C5: while an array returned by to_arrow is alive, the buffers it exports are
\* not freed, whenever the caller lets go of the vector
C5_ExportKeepsBuffers ==
    expo.state = "live" => \A k \in expo.buffers : Live(heap, k)

\* C6: while a borrowed vector is alive, the Arrow buffers its data, offsets and
\* null_bitmap pointers address are not freed, even after the caller lets go of
\* the Arrow array
C6_BorrowedKeepsArrowBuffers ==
    (vecs.state = "live" /\ ~vecs.owns_data) =>
        \A k \in Addressed(vecs) : Live(heap, k)

\* the deallocator that matches an allocator
Matching(alloc) == IF alloc = "malloc" THEN "free" ELSE "PyMem_Free"

\* C7: once the last holder of an owned vector has released it, every block the
\* vector allocated has been freed exactly once, by the matching deallocator
C7_OwnedFreedOnceMatching ==
    (vecs.state = "dead" /\ vecs.owns_data) =>
        \A k \in vecs.allocated :
            \/ heap[k].frees = <<Matching(heap[k].alloc)>>
            \/ heap[k].alloc = "malloc" /\ heap[k].frees = <<"realloc">>

\* C8: for an int64, bool or string array a, from_arrow(a).to_arrow() has the
\* length of a and equals a at every position in validity and, where valid, in
\* value, for slices too
C8_RoundTripEqual ==
    (kpc = "exported" /\ karr.type \in ArrowTypes) =>
        /\ kout.status = "ok"
        /\ kout.arr.length = karr.length
        /\ \A i \in 0..(karr.length - 1) :
              /\ ArrowValid(kout.arr, i) = ArrowValid(karr, i)
              /\ ArrowValid(karr, i) => ArrowValue(kout.arr, i) = ArrowValue(karr, i)

\* C9: once finish has succeeded every later call on the builder fails with
\* BuilderClosed and the vector finish returned stays as it was
C9_FinishedForever ==
    (bPre._finished /\ bLast.op # "none") =>
        /\ bLast.res = "BuilderClosed"
        /\ BuilderVec(bld) = bSnap.vec

WriteOps == {"append", "append_null", "set", "set_null"}

\* C10: a write is accepted only at the index equal to the number of entries
\* written, which is below n_rows; a write at another index, or after n_rows
\* entries, is rejected and leaves the entry count, the byte offset and the
\* offsets array as they were
C10_WritesInOrder ==
    bLast.op \in WriteOps =>
        /\ bLast.res = "ok" =>
              /\ bLast.index = bPre._next_index
              /\ bPre._next_index < bPre._length
              /\ bld._next_index = bPre._next_index + 1
        /\ (bLast.index # bPre._next_index \/ bPre._next_index >= bPre._length) =>
              /\ bLast.res # "ok"
              /\ bld._next_index = bPre._next_index
              /\ bld._offset = bPre._offset
              /\ bld.offsets = bPre.offsets

\* a set or set_null inside the bounds but ahead of the next index, which would
\* leave a gap, was rejected
C10_OutOfOrderRejected ==
    /\ bLast.op \in {"set", "set_null"}
    /\ ~bPre._finished
    /\ bLast.index > bPre._next_index
    /\ bLast.index < bPre._length
    /\ bLast.res = "IndexOutOfOrder"

\* C11: finish on a builder holding fewer than n_rows entries fails with
\* Incomplete, leaves the builder as it was and hands out no vector
C11_IncompleteFinishFails ==
    (bLast.op = "finish" /\ ~bPre._finished /\ bPre._next_index < bPre._length) =>
        /\ bLast.res = "Incomplete"
        /\ bld = bPre
        /\ ~bSnap.taken

\* a finish after some entries, but not all of them, was rejected as incomplete
C11_PartlyWrittenRejected ==
    /\ bLast.op = "finish"
    /\ bPre._next_index > 0
    /\ bPre._next_index < bPre._length
    /\ bLast.res = "Incomplete"

\* C12: finish on a builder holding all its entries fails with CapacityMismatch
\* and hands out no vector when the builder is strict and the bytes written
\* differ from total_bytes; it succeeds on a strict builder whose bytes match
\* and on every non-strict builder, whatever the bytes written
C12_StrictByteTotal ==
    (bLast.op = "finish" /\ ~bPre._finished /\ bPre._next_index = bPre._length) =>
        IF bPre._strict_capacity /\ bPre._offset # bPre._bytes_cap
        THEN /\ bLast.res = "CapacityMismatch"
             /\ ~bld._finished
             /\ ~bSnap.taken
        ELSE /\ bLast.res = "ok"
             /\ bld._finished
             /\ bSnap.taken

\* a strict builder holding all its entries in fewer bytes than announced was
\* rejected by finish
C12_StrictMismatchRejected ==
    /\ bLast.op = "finish"
    /\ bPre._strict_capacity
    /\ bPre._length > 0
    /\ bPre._next_index = bPre._length
    /\ bPre._offset < bPre._bytes_cap
    /\ bLast.res = "CapacityMismatch"

\* the failures after which a builder is said to be closed
ClosingErrors ==
    {"IndexOutOfOrder", "IndexOutOfBounds", "CapacityExceeded", "Incomplete",
     "CapacityMismatch"}

\* C13: once a call on the builder has failed with an index, capacity or
\* finish error, the next call on it fails with BuilderClosed
C13_FailureClosesBuilder ==
    [][(bLast.op # "none" /\ bLast.res \in ClosingErrors) =>
           bLast'.res = "BuilderClosed"]_bvars

\* the vector a builder built, as the StringVector readers take it
BuiltStringVector(bv) ==
    [type |-> DRAKEN_STRING, length |-> bv.length, owns_data |-> TRUE,
     data |-> Ptr(bv.data), offsets |-> Ptr(bv.offsets),
     null_bitmap |-> bv.null_bitmap]

\* StringVector.__getitem__ for 0 <= i < length: None for a null, else the bytes
StringGetItem(v, i) ==
    IF VecIsNull(v, i) THEN Written(TRUE, <<>>) ELSE Written(FALSE, VecValue(v, i))

\* the value bytes of a sequence of written entries
RECURSIVE LogBytes(_)
LogBytes(log) == IF log = <<>> THEN 0 ELSE Len(Head(log).v) + LogBytes(Tail(log))

\* C14: a with_counts(n, B) builder that was given n entries (values or nulls,
\* and no validity mask) whose value bytes sum to B finishes successfully; the
\* vector has length n, its i-th entry reads as the i-th entry written (None
\* for a null), offsets[0] = 0 and offsets[n] = B
C14_ExactBuilderYieldsEntries ==
    (/\ bLast.op = "finish"
     /\ ~bPre._finished
     /\ bPre._strict_capacity
     /\ ~bPre._mask_user_provided
     /\ Len(bLog) = bPre._length
     /\ LogBytes(bLog) = bPre._bytes_cap) =>
        /\ bLast.res = "ok"
        /\ bSnap.taken
        /\ bSnap.vec.length = bPre._length
        /\ \A i \in 0..(bPre._length - 1) :
              StringGetItem(BuiltStringVector(bSnap.vec), i) = bLog[i + 1]
        /\ bSnap.vec.offsets[1] = 0
        /\ bSnap.vec.offsets[bPre._length + 1] = bPre._bytes_cap

\* a strict builder given a null and a value of exactly the announced bytes was
\* finished
C14_NullAndValueFinished ==
    /\ bLast.op = "finish"
    /\ bLast.res = "ok"
    /\ ~bPre._finished
    /\ bPre._strict_capacity
    /\ ~bPre._mask_user_provided
    /\ Len(bLog) = bPre._length
    /\ \E i, j \in 1..Len(bLog) : bLog[i].isNull /\ ~bLog[j].isNull /\ bLog[j].v # <<>>

\* C15: a comparison kernel returns a mask in which the entry of a null row is
\* 0, and the entry of a non-null row is 1 exactly when the row's value compares
\* as asked with the argument
C15_ComparisonMasksNulls ==
    (kpc = "computed" /\ kout.op \in {"compare", "equals", "not_equals"}) =>
        /\ kout.status = "ok"
        /\ Len(kout.mask) = kvec.length
        /\ \A i \in 0..(kvec.length - 1) :
              kout.mask[i + 1] =
                  IF VecIsNull(kvec, i) THEN 0
                  ELSE IF (VecValue(kvec, i) = kout.arg) = (kout.op # "not_equals")
                       THEN 1 ELSE 0

\* a row of the vector and the hash that belongs to it
RowHash(row) == IF row.isNull THEN NULL_HASH ELSE HashBytes(HashBasis, row.v)

\* C16: hash() of every StringVector (one of no rows included) returns one
\* 64-bit value per row; the value is NULL_HASH exactly for the null rows, and
\* it depends on nothing but the row's null flag and bytes, so equal rows (of
\* one vector or of two) hash equally
C16_HashMarksNulls ==
    (kpc = "computed" /\ kout.op = "hash") =>
        /\ kout.status = "ok"
        /\ Len(kout.mask) = kvec.length
        /\ \A i \in 0..(kvec.length - 1) :
              /\ Len(kout.mask[i + 1]) = 8
              /\ \A b \in 1..8 : kout.mask[i + 1][b] \in 0..255
              /\ (kout.mask[i + 1] = NULL_HASH) <=> VecIsNull(kvec, i)
              /\ kout.mask[i + 1] = RowHash(StringGetItem(kvec, i))
        /\ \A i, j \in 0..(kvec.length - 1) :
              StringGetItem(kvec, i) = StringGetItem(kvec, j) =>
                  kout.mask[i + 1] = kout.mask[j + 1]

\* C17: is_null() of every vector (one of no rows included) returns a mask
\* whose entry i is 1 exactly when the vector has a null bitmap whose bit i is 0
\* (so it is 0 everywhere without a bitmap), and null_count is the number of
\* such rows
C17_IsNullReadsBitmap ==
    /\ (kpc = "computed" /\ kout.op = "is_null") =>
          /\ kout.status = "ok"
          /\ Len(kout.mask) = kvec.length
          /\ \A i \in 0..(kvec.length - 1) :
                kout.mask[i + 1] =
                    IF /\ ~kvec.null_bitmap.isNull
                       /\ BitOf(kvec.null_bitmap.mem[(i \div 8) + 1], i % 8) = 0
                    THEN 1 ELSE 0
    /\ (kpc = "computed" /\ kout.op = "null_count") =>
          kout.count = Cardinality({i \in 0..(kvec.length - 1) :
                                       BoolIsNull(kvec).mask[i + 1] = 1})

\* the name of column i as the morsel reports it (the column_names property
\* reads strlen bytes at the stored pointer)
ReportedName(m, i) == CStr(m.column_names[i])

\* the source columns that carry the name asked for
ColumnsNamed(m, bytes) == {i \in 1..m.num_columns : ReportedName(m, i) = bytes}
Lowest(S) == CHOOSE i \in S : \A j \in S : i <= j

\* C18: select(names) gives a morsel of Len(names) columns over the source's rows
\* whose k-th column is the source's first column named names[k], the same
\* vector object under the same name and type; with a name no column carries
\* (a name with a NUL inside among them: no column reports such a name) it
\* raises KeyError (ColumnNotFound) and gives no morsel
C18_SelectFirstNamed ==
    mlast.op = "select" =>
        LET wanted == [k \in 1..Len(mlast.names) |-> SelectName(mlast.names[k])] IN
        IF \A k \in 1..Len(wanted) : ColumnsNamed(msrc, wanted[k]) # {}
        THEN /\ mlast.res = "ok"
             /\ morsel.num_columns = Len(wanted)
             /\ Len(morsel.columns) = Len(wanted)
             /\ morsel.num_rows = msrc.num_rows
             /\ \A k \in 1..Len(wanted) :
                   LET i == Lowest(ColumnsNamed(msrc, wanted[k])) IN
                   /\ morsel.columns[k] = msrc.columns[i]
                   /\ ReportedName(morsel, k) = wanted[k]
                   /\ morsel.column_types[k] = msrc.column_types[i]
        ELSE /\ mlast.res = "KeyError"
             /\ morsel = msrc

\* the name bytes rename is said to store for a list entry or a mapped column
RenamedTo(i) ==
    IF mlast.mapping
    THEN LET old == Utf8Decode(ReportedName(msrc, i))
         IN Utf8Encode(DictGet(mlast.dict, old, old))
    ELSE SelectName(mlast.names[i])

\* C19: rename gives a new morsel with the source's vectors, types and row
\* count; a list of names (bytes or text) of the right length becomes the column
\* names, a list of another length raises ValueError (LengthMismatch), and a
\* mapping renames the columns whose name is a key and leaves the others
C19_RenameKeepsColumns ==
    mlast.op = "rename" =>
        IF ~mlast.mapping /\ Len(mlast.names) # msrc.num_columns
        THEN mlast.res = "ValueError" /\ morsel = msrc
        ELSE /\ mlast.res = "ok"
             /\ morsel.num_columns = msrc.num_columns
             /\ morsel.num_rows = msrc.num_rows
             /\ morsel.columns = msrc.columns
             /\ morsel.column_types = msrc.column_types
             /\ \A i \in 1..msrc.num_columns : ReportedName(morsel, i) = RenamedTo(i)

\* C20: column(name) returns the vector of the lowest column whose stored name
\* is name, whatever operations the morsel came from and however many columns
\* carry the name; with no such column it raises KeyError (ColumnNotFound)
C20_ColumnFirstMatch ==
    mlast.op = "column" =>
        LET hits == ColumnsNamed(msrc, mlast.names[1].v) IN
        /\ morsel = msrc
        /\ IF hits = {} THEN mlast.res = "KeyError" /\ mlast.vec = NoMVec
           ELSE mlast.res = "ok" /\ mlast.vec = msrc.columns[Lowest(hits)]

\* column() found its name twice, in a morsel that an earlier select, take or
\* rename produced, and returned the first of the two vectors
C20_DuplicateNameLookedUp ==
    /\ mlast.op = "column"
    /\ mlast.res = "ok"
    /\ mops >= 3
    /\ msrc.num_columns = 2
    /\ ReportedName(msrc, 1) = ReportedName(msrc, 2)
    /\ msrc.columns[1].id # msrc.columns[2].id
    /\ mlast.vec.id = msrc.columns[1].id

\* the tag the mapping table gives an Arrow type
MappingTable(dtype) ==
    CASE dtype = "int8" -> "DRAKEN_INT8"
      [] dtype = "int16" -> "DRAKEN_INT16"
      [] dtype = "int32" -> "DRAKEN_INT32"
      [] dtype = "int64" -> "DRAKEN_INT64"
      [] dtype = "float32" -> "DRAKEN_FLOAT32"
      [] dtype = "float64" -> "DRAKEN_FLOAT64"
      [] dtype = "date32" -> "DRAKEN_DATE32"
      [] dtype = "timestamp" -> "DRAKEN_TIMESTAMP64"
      [] dtype = "bool" -> "DRAKEN_BOOL"
      [] dtype \in {"string", "binary", "large_string"} -> "DRAKEN_STRING"
      [] dtype \in {"list", "large_list"} -> "DRAKEN_ARRAY"
      [] OTHER -> "DRAKEN_NON_NATIVE"

\* C21: arrow_type_to_draken returns, for every Arrow type, the tag of the
\* mapping table (string, binary and large_string to String, ..., anything else
\* to NonNative), and the vector vector_from_arrow builds carries that tag
C21_ImportTagFollowsTable ==
    dcall.fn \in {"arrow_type_to_draken", "vector_from_arrow"} =>
        dres = MappingTable(dcall.type)

\* the stable code of a tag
StableCode(name) ==
    CASE name = "DRAKEN_INT8" -> 1
      [] name = "DRAKEN_INT16" -> 2
      [] name = "DRAKEN_INT32" -> 3
      [] name = "DRAKEN_INT64" -> 4
      [] name = "DRAKEN_FLOAT32" -> 20
      [] name = "DRAKEN_FLOAT64" -> 21
      [] name = "DRAKEN_DATE32" -> 30
      [] name = "DRAKEN_TIMESTAMP64" -> 40
      [] name = "DRAKEN_BOOL" -> 50
      [] name = "DRAKEN_STRING" -> 60
      [] name = "DRAKEN_ARRAY" -> 80
      [] OTHER -> 100

\* C22: for every column of a morsel, the code column_types reports is the
\* stable code of the column vector's type (Int64 = 4, Bool = 50, String = 60,
\* ...) and the name DrakenTypeInt prints for it is that type's name
C22_ColumnCodeNamesType ==
    morsel.exists =>
        \A i \in 1..morsel.num_columns :
            LET actual == DrakenTypeName(morsel.columns[i].type) IN
            /\ morsel.column_types[i] = StableCode(actual)
            /\ _enum_name(morsel.column_types[i]) = actual

\* C23: get_op returns absent when the left operand is a scalar and the right a
\* vector, when the two types differ, when the operation is arithmetic and the
\* type not numeric, and when the operation is boolean and a side is not Bool;
\* for every other combination it returns a kernel handle
C23_GetOpFollowsRules ==
    dcall.fn = "get_op" =>
        LET absent ==
              \/ dcall.left_is_scalar /\ ~dcall.right_is_scalar
              \/ dcall.left_type # dcall.right_type
              \/ dcall.op \in ArithmeticOps /\ dcall.left_type \notin NumericTypes
              \/ dcall.op \in BooleanOps
                    /\ (dcall.left_type # TYPE_BOOL \/ dcall.right_type # TYPE_BOOL)
        IN (dres = "None") <=> absent

\* the offsets of a variable-width array are non-decreasing and end within the
\* data buffer
OffsetsValid(a) ==
    /\ \A i \in 1..a.length : a.offsets.mem[i] <= a.offsets.mem[i + 1]
    /\ a.offsets.mem[a.length + 1] <= Len(a.data.mem)

\* C24: importing a variable-width Arrow array whose offsets are not
\* non-decreasing, or whose last offset exceeds the data size, fails and yields
\* no vector
C24_BadOffsetsRejected ==
    (kpc = "vector" /\ karr.type = "string" /\ ~OffsetsValid(karr)) => kvec = NoVec

\* C25: StringVector.take keeps, for an index array of any length (more than
\* 2048 entries included), every row's validity bit and bytes: result row k is
\* null exactly when source row indices[k] is, holds the same bytes otherwise,
\* offsets[0] is 0 and offsets[n] is the sum of the lengths taken
C25_TakeKeepsRows ==
    (kpc = "taken" /\ kout.status = "ok" /\ kvec.type = DRAKEN_STRING) =>
        LET n == Len(kout.indices) IN
        /\ kout.vec.length = n
        /\ kout.vec.offsets.mem[1] = 0
        /\ kout.vec.offsets.mem[n + 1] = Len(kout.vec.data.mem)
        /\ \A k \in 0..(n - 1) :
              /\ VecIsNull(kout.vec, k) = VecIsNull(kvec, kout.indices[k + 1])
              /\ VecValue(kout.vec, k) = VecValue(kvec, kout.indices[k + 1])

\* C26: BoolVector.any() returns 1 exactly when the bit of some row in
\* [0, length) is 1, and all() returns 1 exactly when the bit of every such row
\* is 1 (so 0 and 1 on an empty vector); the bits of the last byte beyond
\* length affect neither
C26_AnyAllReadRows ==
    (kpc = "computed" /\ kout.op \in {"any", "all"}) =>
        LET ones == {i \in 0..(kvec.length - 1) : BitmapBit(kvec.data.mem, i) = 1}
        IN IF kout.op = "any" THEN (kout.count = 1) <=> (ones # {})
           ELSE (kout.count = 1) <=> (Cardinality(ones) = kvec.length)

\* the doublings a capacity goes through within the bounds
MaxDoublings == 10

\* the last call appended a value to a growable builder, at the index the
\* builder expected: append, or set, the append that names its index
GrowableAppend ==
    /\ bLast.op \in {"append", "set"}
    /\ bPre._resizable
    /\ _require_index(bPre, bLast.index) = "ok"

\* the value appended last did not fit in the capacity the builder had
Overflowed == bld._offset > bPre._bytes_cap

\* C27 as claimed: in a growable builder an append (append, or set at the next
\* index) never fails for capacity;
\* when the value does not fit, the capacity becomes the old capacity times 2^k
\* (k >= 1) and the value fits, the bytes already written are preserved; the
\* capacity never changes otherwise
C27_GrowthDoubles ==
    /\ (bLast.op # "none" /\ bPre._resizable) => bLast.res # "CapacityExceeded"
    /\ GrowableAppend =>
          /\ bLast.res = "ok"
          /\ SubSeq(bld.data, 1, bPre._offset) = bPre.data
          /\ IF Overflowed
             THEN /\ \E k \in 1..MaxDoublings : bld._bytes_cap = bPre._bytes_cap * 2 ^ k
                  /\ bld._offset <= bld._bytes_cap
             ELSE bld._bytes_cap = bPre._bytes_cap
    /\ (bLast.op # "none" /\ ~GrowableAppend) => bld._bytes_cap = bPre._bytes_cap

\* C27 (amended): in a growable builder an append (append, or set at the next
\* index) never fails for capacity; when the value does not fit, the capacity
\* goes to 64 when it was below 64 and to its double otherwise, and doubles
\* from there until the value fits; the bytes already written are preserved;
\* the capacity never changes otherwise, in no other call and in no rejected one
C27_GrowthFromFloor ==
    /\ (bLast.op # "none" /\ bPre._resizable) => bLast.res # "CapacityExceeded"
    /\ GrowableAppend =>
          /\ bLast.res = "ok"
          /\ SubSeq(bld.data, 1, bPre._offset) = bPre.data
          /\ IF Overflowed
             THEN LET first == IF bPre._bytes_cap < EstimateFloor THEN EstimateFloor
                               ELSE bPre._bytes_cap * 2
                  IN \E k \in 0..MaxDoublings :
                        /\ bld._bytes_cap = first * 2 ^ k
                        /\ bld._offset <= bld._bytes_cap
                        /\ k > 0 => first * 2 ^ (k - 1) < bld._offset
             ELSE bld._bytes_cap = bPre._bytes_cap
    /\ (bLast.op # "none" /\ ~GrowableAppend) => bld._bytes_cap = bPre._bytes_cap

\* an append that found bytes written and took the capacity from 64 past its double
C27_GrewPastDouble ==
    /\ GrowableAppend
    /\ bLast.res = "ok"
    /\ bPre._offset > 0
    /\ bPre._bytes_cap = EstimateFloor
    /\ bld._bytes_cap > 2 * bPre._bytes_cap

\* C28: after any sequence of builder operations, successful or rejected,
\* 0 <= entries written <= n_rows, offsets[0] = 0, offsets[0..entries written]
\* is non-decreasing, offsets[entries written] is the number of bytes used and
\* that number is at most the capacity; and a successful append_null makes the
\* entries written one more and leaves the bytes used as they were
C28_BuilderOffsetsInvariant ==
    /\ bld.exists =>
          /\ 0 <= bld._next_index /\ bld._next_index <= bld._length
          /\ bld.offsets[1] = 0
          /\ \A i \in 1..bld._next_index : bld.offsets[i] <= bld.offsets[i + 1]
          /\ bld.offsets[bld._next_index + 1] = bld._offset
          /\ bld._offset <= bld._bytes_cap
    /\ (bLast.op = "append_null" /\ bLast.res = "ok") =>
          /\ bld._next_index = bPre._next_index + 1
          /\ bld._offset = bPre._offset

\* a null appended after a value of two bytes
C28_NullAfterBytes ==
    /\ bLast.op = "append_null"
    /\ bLast.res = "ok"
    /\ bPre._offset = 2
    /\ bld._next_index = 2

\* every object a live morsel points to is live
PointersValid(m) ==
    /\ \A i \in 1..Len(m.columns) : lobj[m.columns[i]].state = "live"
    /\ \A i \in 1..Len(m.column_names) : lobj[m.column_names[i]].state = "live"

\* C29: a vector that is a column of a live morsel is never destroyed, and
\* after select, rename or take, dropping the source or the result, in either
\* order, leaves the other's columns and names valid and unchanged
C29_ColumnsOutliveDrops ==
    /\ [](\A h \in DOMAIN lmor : lmor[h].state = "live" => PointersValid(lmor[h]))
    /\ [][\A h \in DOMAIN lmor :
            (lmor[h].state = "live" /\ lmor'[h].state = "live") =>
                /\ lmor'[h].columns = lmor[h].columns
                /\ lmor'[h].column_names = lmor[h].column_names]_lvars

\* the source of a select was dropped and the result, which shares a vector
\* with it, is still live
C29_SourceDroppedFirst ==
    /\ llast.op = "drop"
    /\ \E h \in DOMAIN lmor :
          /\ lmor[h].state = "live"
          /\ Len(lmor[h].columns) > 0
          /\ \E i \in 1..Len(lmor[h].columns) :
                \E j \in 1..Len(lmor[llast.src].columns) :
                   lmor[h].columns[i] = lmor[llast.src].columns[j]

\* low, high and mid are positions of the key block: they have not wrapped
\* around and no probe is outside the block
SearchInBounds ==
    spc # "idle" =>
        /\ U32Leq(slow, U32Of(Len(stab)))
        /\ U32Leq(shigh, U32Of(Len(stab)))
        /\ U32Leq(smid, U32Of(Len(stab)))

\* what match_equals returned is the stored value, or the empty list for a key
\* that is not stored
SearchAnswerRight ==
    spc = "done" =>
        IF \E i \in 1..Len(stab) : stab[i] = skey THEN sres = ValueOf(skey)
        ELSE sres = EmptyList

\* C30: match_equals terminates for every key and every SSTable, returns the
\* empty list when the key is not stored (a key before every stored key and an
\* empty SSTable included) and the value when it is, and its 32-bit unsigned
\* bounds low, high and mid never wrap around or index outside the key block
C30_SearchEndsInBounds ==
    /\ [](SearchInBounds /\ SearchAnswerRight)
    /\ (spc = "search") ~> (spc = "done")


====
